---- MODULE Spec2Model ----
(***************************************************************************)
(* Attendance records and the role hierarchy of the user/attendance        *)
(* backend (backend/app).                                                   *)
(*                                                                          *)
(* The database tables are sequences of rows (a row is never removed, so   *)
(* a row's position is its primary key).  Every service call is one        *)
(* action: it runs the whole handler, commit included, and leaves its      *)
(* request and its outcome in lastOp.                                       *)
(*                                                                          *)
(* Optional values (Python's Optional[...]) are sequences of length 0      *)
(* (None) or 1 (a value).  A time of day is <<hour, minute, second>>.      *)
(* Hours (a float rounded to 2 decimals in the code) are integers counting *)
(* hundredths of an hour.                                                   *)
(***************************************************************************)
EXTENDS Integers, Sequences, FiniteSets, TLC

VARIABLES
    attendances,   \* table "attendances": Seq of rows, row i has id i
    now,           \* the reading datetime.now() gives to the next write
    lastOp,        \* the last call: its name, request and outcome
    probe,         \* four times of day handed to the pure functions
    users,         \* table "users": Seq of rows, row i has id i
    user_roles,    \* table "user_roles": Seq of role assignments
    roles,         \* table "roles": the role catalog, a set of rows
    requests       \* requests in flight on the worker threads: where each
                   \* stands in its handler and what it has read so far

vars == <<attendances, now, lastOp, probe, users, user_roles, roles, requests>>

None == <<>>
Some(x) == <<x>>

----------------------------------------------------------------------------
(* Bounds and input sets *)

MaxAttendances == 2
MaxWrites == 3
MaxUsers == 2
MaxUserWrites == 5

UserIds == {"u1", "u2"}
InvalidUserId == "not-a-uuid"
WorkDates == {"2024-04-01", "2024-04-02"}

T0900 == <<9, 0, 0>>
T1200 == <<12, 0, 0>>
T120030 == <<12, 0, 30>>
T1245 == <<12, 45, 0>>
T1300 == <<13, 0, 0>>
T1800 == <<18, 0, 0>>

\* The times the pure functions are probed with (all quadruples of them).
ClockTimes == {T0900, T1200, T120030, T1245, T1300, T1800}

Quad(ci, co, ri, ro) ==
    [clock_in |-> ci, clock_out |-> co, rest_in |-> ri, rest_out |-> ro]

\* The time quadruples create requests carry: a validly ordered one, one for
\* each boundary violated alone (equal or reversed), and one that violates
\* several boundaries.
CreateQuads ==
    { Quad(T0900, T1800, T1200, T1300),
      Quad(T1200, T1800, T1200, T1300),
      Quad(T0900, T1800, T1300, T1200),
      Quad(T0900, T1245, T1200, T1300),
      Quad(T1300, T0900, T1200, T1200) }

----------------------------------------------------------------------------
(* Attendance entity: domain/entities/attendance.py *)

time_to_seconds(t) == t[1] * 3600 + t[2] * 60 + t[3]

\* Python's comparison of datetime.time values: by (hour, minute, second).
TimeLT(a, b) ==
    \/ a[1] < b[1]
    \/ a[1] = b[1] /\ a[2] < b[2]
    \/ a[1] = b[1] /\ a[2] = b[2] /\ a[3] < b[3]

TimeGE(a, b) == ~TimeLT(a, b)

\* round(seconds / 3600, 2), in hundredths of an hour: the nearest integer to
\* seconds / 36, a tie going to the even neighbour.
RoundHours(seconds) ==
    LET a == IF seconds < 0 THEN -seconds ELSE seconds
        q == a \div 36
        r == a % 36
        m == IF 2 * r > 36 \/ (2 * r = 36 /\ q % 2 = 1) THEN q + 1 ELSE q
    IN  IF seconds < 0 THEN -m ELSE m

\* Faulty variant: the rest is not subtracted.
calculate_working_hours_gross(a) ==
    LET work_seconds == time_to_seconds(a.clock_out) - time_to_seconds(a.clock_in)
    IN  RoundHours(work_seconds)

calculate_working_hours(a) ==
    LET work_seconds == time_to_seconds(a.clock_out) - time_to_seconds(a.clock_in)
        rest_seconds == time_to_seconds(a.rest_out) - time_to_seconds(a.rest_in)
        total_seconds == work_seconds - rest_seconds
    IN  RoundHours(total_seconds)

calculate_rest_hours(a) ==
    LET rest_seconds == time_to_seconds(a.rest_out) - time_to_seconds(a.rest_in)
    IN  RoundHours(rest_seconds)

\* "x if x is not None else y"
IfNotNone(x, y) == IF x # None THEN x[1] ELSE y

\* Attendance.update: every argument is optional, updated_by defaults to "".
NoArgs ==
    [work_date |-> None, clock_in |-> None, clock_out |-> None,
     rest_in |-> None, rest_out |-> None, work_place |-> None,
     transportation_expenses |-> None, remarks |-> None, updated_by |-> ""]

\* Faulty variant: an omitted rest_out falls back to the stored rest_in.
Attendance_update_rest_in(self, args, t) ==
    [id |-> self.id,
     work_date |-> IfNotNone(args.work_date, self.work_date),
     clock_in |-> IfNotNone(args.clock_in, self.clock_in),
     clock_out |-> IfNotNone(args.clock_out, self.clock_out),
     rest_in |-> IfNotNone(args.rest_in, self.rest_in),
     rest_out |-> IfNotNone(args.rest_out, self.rest_in),
     user_id |-> self.user_id,
     work_place |->
        IF args.work_place # None THEN args.work_place ELSE self.work_place,
     transportation_expenses |->
        IF args.transportation_expenses # None
        THEN args.transportation_expenses ELSE self.transportation_expenses,
     remarks |-> IF args.remarks # None THEN args.remarks ELSE self.remarks,
     delete_flag |-> self.delete_flag,
     created_at |-> self.created_at,
     created_by |-> self.created_by,
     updated_at |-> t,
     updated_by |-> IF args.updated_by # "" THEN args.updated_by ELSE self.updated_by]

Attendance_update(self, args, t) ==
    [id |-> self.id,
     work_date |-> IfNotNone(args.work_date, self.work_date),
     clock_in |-> IfNotNone(args.clock_in, self.clock_in),
     clock_out |-> IfNotNone(args.clock_out, self.clock_out),
     rest_in |-> IfNotNone(args.rest_in, self.rest_in),
     rest_out |-> IfNotNone(args.rest_out, self.rest_out),
     user_id |-> self.user_id,
     work_place |->
        IF args.work_place # None THEN args.work_place ELSE self.work_place,
     transportation_expenses |->
        IF args.transportation_expenses # None
        THEN args.transportation_expenses ELSE self.transportation_expenses,
     remarks |-> IF args.remarks # None THEN args.remarks ELSE self.remarks,
     delete_flag |-> self.delete_flag,
     created_at |-> self.created_at,
     created_by |-> self.created_by,
     updated_at |-> t,
     updated_by |-> IF args.updated_by # "" THEN args.updated_by ELSE self.updated_by]

\* Faulty variant: no early return for a record that is already deleted.
Attendance_deactivate_always(self, t) ==
    [self EXCEPT !.delete_flag = TRUE, !.updated_at = t]

Attendance_deactivate(self, t) ==
    IF self.delete_flag THEN self
    ELSE [self EXCEPT !.delete_flag = TRUE, !.updated_at = t]

\* Faulty variant: remarks is not copied to the new instance.
Attendance_activate_blank(self, t) ==
    IF ~self.delete_flag THEN self
    ELSE [self EXCEPT !.delete_flag = FALSE, !.updated_at = t, !.remarks = None]

Attendance_activate(self, t) ==
    IF ~self.delete_flag THEN self
    ELSE [self EXCEPT !.delete_flag = FALSE, !.updated_at = t]

----------------------------------------------------------------------------
(* Request and response DTOs: application/dtos/attendance_dto.py *)

\* The fields AttendanceUpdateDTO declares.
AttendanceUpdateDTO_fields ==
    {"work_date", "clock_in", "clock_out", "rest_in", "rest_out", "status",
     "work_place", "transportation_expenses", "remarks", "updated_by"}

\* The fields of AttendanceResponseDTO that have no default.
AttendanceResponseDTO_required ==
    {"id", "work_date", "clock_in", "clock_out", "rest_in", "rest_out",
     "user_id", "status", "working_hours", "rest_hours", "delete_flag",
     "created_at", "created_by", "updated_at", "updated_by"}

NoPatch ==
    [work_date |-> None, clock_in |-> None, clock_out |-> None,
     rest_in |-> None, rest_out |-> None, work_place |-> None,
     transportation_expenses |-> None, remarks |-> None, updated_by |-> "bob"]

\* The update requests: none of the time fields, one of them (merging to a
\* valid or to an invalid order with the stored times), two of them, and the
\* other fields.
UpdateRequests ==
    { NoPatch,
      [NoPatch EXCEPT !.updated_by = ""],
      [NoPatch EXCEPT !.work_place = Some("office"), !.remarks = Some("late"),
                      !.transportation_expenses = Some(500)],
      [NoPatch EXCEPT !.work_date = Some("2024-04-02")],
      [NoPatch EXCEPT !.rest_in = Some(T120030)],
      [NoPatch EXCEPT !.clock_in = Some(T1245)],
      [NoPatch EXCEPT !.rest_out = Some(T1200)],
      [NoPatch EXCEPT !.clock_out = Some(T1300)],
      [NoPatch EXCEPT !.clock_in = Some(T1300), !.rest_out = Some(T0900)],
      [NoPatch EXCEPT !.rest_in = Some(T1245), !.clock_out = Some(T1300),
                      !.work_place = Some("office")],
      [NoPatch EXCEPT !.transportation_expenses = Some(-1)],
      [NoPatch EXCEPT !.transportation_expenses = Some(-1),
                      !.clock_out = Some(T1300)] }

CreateRequests ==
    { [user_id |-> u, work_date |-> d,
       clock_in |-> q.clock_in, clock_out |-> q.clock_out,
       rest_in |-> q.rest_in, rest_out |-> q.rest_out,
       work_place |-> None, transportation_expenses |-> None, remarks |-> None,
       created_by |-> "alice", updated_by |-> "alice"] :
         u \in UserIds, d \in WorkDates, q \in CreateQuads }
    \cup
    { [user_id |-> InvalidUserId, work_date |-> "2024-04-01",
       clock_in |-> T0900, clock_out |-> T1800,
       rest_in |-> T1200, rest_out |-> T1300,
       work_place |-> None, transportation_expenses |-> None, remarks |-> None,
       created_by |-> "alice", updated_by |-> "alice"] }
    \cup
    { [user_id |-> "u1", work_date |-> "2024-04-01",
       clock_in |-> q.clock_in, clock_out |-> q.clock_out,
       rest_in |-> q.rest_in, rest_out |-> q.rest_out,
       work_place |-> Some("office"), transportation_expenses |-> Some(te),
       remarks |-> None, created_by |-> "alice", updated_by |-> "alice"] :
         q \in {Quad(T0900, T1800, T1200, T1300), Quad(T1200, T1800, T1200, T1300)},
         te \in {-1, 500} }

\* Faulty variant: no lower limit.
transportation_expenses_ge_0_any(x) == TRUE

\* Field(None, ge=0) on transportation_expenses, in both request DTOs.
transportation_expenses_ge_0(x) == x = None \/ x[1] >= 0

\* AttendanceCreateDTO(**body) / AttendanceUpdateDTO(**body): whether pydantic
\* accepts the body.
AttendanceCreateDTO(body) == transportation_expenses_ge_0(body.transportation_expenses)

AttendanceUpdateDTO(body) == transportation_expenses_ge_0(body.transportation_expenses)

----------------------------------------------------------------------------
(* SQLAlchemyAttendanceRepository: infrastructure/repositories/attendance_repository.py *)

Rows(db) == { db[i] : i \in 1..Len(db) }

\* Faulty variant: no delete_flag filter.
find_by_id_with_deleted(db, attendance_id) ==
    IF attendance_id \in 1..Len(db) THEN Some(db[attendance_id]) ELSE None

\* find_by_id: the row with this id that is not logically deleted, or None.
find_by_id(db, attendance_id) ==
    IF attendance_id \in 1..Len(db) /\ ~db[attendance_id].delete_flag
    THEN Some(db[attendance_id]) ELSE None

\* Faulty variant: the delete_flag filter inverted.
find_by_user_id_and_date_deleted(db, user_id, work_date) ==
    { r \in Rows(db) :
        r.user_id = user_id /\ r.work_date = work_date /\ r.delete_flag }

\* find_by_user_id_and_date: the rows the query's filter keeps; the code takes
\* .first() of them and only asks whether there is one.
find_by_user_id_and_date(db, user_id, work_date) ==
    { r \in Rows(db) :
        r.user_id = user_id /\ r.work_date = work_date /\ ~r.delete_flag }

\* Faulty variant: the update branch also overwrites the creation columns.
save_all_columns(db, a, t) ==
    IF a.id \notin 1..Len(db)
    THEN [db |-> Append(db, a), entity |-> a]
    ELSE LET row == [a EXCEPT !.created_at = t, !.created_by = a.updated_by,
                              !.updated_at = t]
         IN  [db |-> [db EXCEPT ![a.id] = row], entity |-> row]

\* save: insert when no row has the id, else overwrite the row's mutable
\* columns; commit; the saved entity is read back from the row.
save(db, a, t) ==
    IF a.id \notin 1..Len(db)
    THEN [db |-> Append(db, a), entity |-> a]
    ELSE LET row == [db[a.id] EXCEPT
                        !.work_date = a.work_date,
                        !.clock_in = a.clock_in,
                        !.clock_out = a.clock_out,
                        !.rest_in = a.rest_in,
                        !.rest_out = a.rest_out,
                        !.work_place = a.work_place,
                        !.transportation_expenses = a.transportation_expenses,
                        !.remarks = a.remarks,
                        !.delete_flag = a.delete_flag,
                        !.updated_at = t,
                        !.updated_by = a.updated_by]
         IN  [db |-> [db EXCEPT ![a.id] = row], entity |-> row]

\* Faulty variant: the row is removed.
delete_purge(db, attendance_id, t) ==
    SelectSeq(db, LAMBDA r : r.id # attendance_id)

\* delete: mark the row with the id deleted, whether or not it already is.
delete(db, attendance_id, t) ==
    IF attendance_id \in 1..Len(db)
    THEN [db EXCEPT ![attendance_id].delete_flag = TRUE,
                    ![attendance_id].updated_at = t]
    ELSE db

\* AttendanceId.generate(): an id no row has.
generate(db) == Len(db) + 1

----------------------------------------------------------------------------
(* AttendanceService: application/services/attendance_service.py *)

ErrInvalidUserId == "Invalid user ID"
ErrAlreadyExists == "Attendance record already exists"
ErrClockInRestIn == "Clock-in time must be before rest-in time"
ErrRestInRestOut == "Rest-in time must be before rest-out time"
ErrRestOutClockOut == "Rest-out time must be before clock-out time"
ErrResponseValidation == "ValidationError: status: Field required"
ErrAttribute == "AttributeError: 'AttendanceUpdateDTO' object has no attribute 'date'"
ErrGreaterEqual ==
    "ValidationError: transportation_expenses: Input should be greater than or equal to 0"
ErrType == "TypeError: update() got an unexpected keyword argument 'date'"

TimeOrderErrors == {ErrClockInRestIn, ErrRestInRestOut, ErrRestOutClockOut}

\* _validate_clock_times: the error it raises, or "" when it returns.
\* Faulty variant: the three checks in the reverse order.
validate_clock_times_reversed(clock_in, clock_out, rest_in, rest_out) ==
    IF TimeGE(rest_out, clock_out) THEN ErrRestOutClockOut
    ELSE IF TimeGE(rest_in, rest_out) THEN ErrRestInRestOut
    ELSE IF TimeGE(clock_in, rest_in) THEN ErrClockInRestIn
    ELSE ""

\* Faulty variant: the rest-out time is never checked against the clock-out.
validate_clock_times_open_ended(clock_in, clock_out, rest_in, rest_out) ==
    IF TimeGE(clock_in, rest_in) THEN ErrClockInRestIn
    ELSE IF TimeGE(rest_in, rest_out) THEN ErrRestInRestOut
    ELSE ""

validate_clock_times(clock_in, clock_out, rest_in, rest_out) ==
    IF TimeGE(clock_in, rest_in) THEN ErrClockInRestIn
    ELSE IF TimeGE(rest_in, rest_out) THEN ErrRestInRestOut
    ELSE IF TimeGE(rest_out, clock_out) THEN ErrRestOutClockOut
    ELSE ""

\* The keyword arguments _to_response_dto passes to AttendanceResponseDTO.
to_response_dto_keywords ==
    {"id", "work_date", "clock_in", "clock_out", "rest_in", "rest_out",
     "user_id", "work_place", "transportation_expenses", "remarks",
     "working_hours", "rest_hours", "delete_flag", "created_at", "created_by",
     "updated_at", "updated_by"}

\* _to_response_dto: pydantic raises a ValidationError when a required field
\* is not passed.
to_response_dto(a) ==
    IF AttendanceResponseDTO_required \subseteq to_response_dto_keywords
    THEN [ok |-> TRUE,
          dto |-> [id |-> a.id, work_date |-> a.work_date,
                   clock_in |-> a.clock_in, clock_out |-> a.clock_out,
                   rest_in |-> a.rest_in, rest_out |-> a.rest_out,
                   user_id |-> a.user_id, work_place |-> a.work_place,
                   transportation_expenses |-> a.transportation_expenses,
                   remarks |-> a.remarks,
                   working_hours |-> calculate_working_hours(a),
                   rest_hours |-> calculate_rest_hours(a),
                   delete_flag |-> a.delete_flag,
                   created_at |-> a.created_at, created_by |-> a.created_by,
                   updated_at |-> a.updated_at, updated_by |-> a.updated_by]]
    ELSE [ok |-> FALSE, dto |-> None]

Raised(db, err) == [db |-> db, outcome |-> "raised", error |-> err, value |-> None]
Returned(db, v) == [db |-> db, outcome |-> "returned", error |-> "", value |-> v]

\* The end of get/create/update: return self._to_response_dto(entity).
ReturnResponse(db, entity) ==
    LET r == to_response_dto(entity)
    IN  IF r.ok THEN Returned(db, Some(r.dto)) ELSE Raised(db, ErrResponseValidation)

\* UserId(data.user_id): uuid.UUID raises ValueError on a malformed string.
ValidUserId(user_id) == user_id # InvalidUserId

get_attendance(db, attendance_id) ==
    LET found == find_by_id(db, attendance_id)
    IN  IF found = None THEN Returned(db, None)
        ELSE ReturnResponse(db, found[1])

\* Attendance(id=AttendanceId.generate(), ...) as create_attendance builds it.
Attendance(id, data, t) ==
    [id |-> id,
     work_date |-> data.work_date,
     clock_in |-> data.clock_in, clock_out |-> data.clock_out,
     rest_in |-> data.rest_in, rest_out |-> data.rest_out,
     user_id |-> data.user_id,
     work_place |-> data.work_place,
     transportation_expenses |-> data.transportation_expenses,
     remarks |-> data.remarks,
     delete_flag |-> FALSE,
     created_at |-> t, created_by |-> data.created_by,
     updated_at |-> t, updated_by |-> data.updated_by]

create_attendance(db, data, t) ==
    IF ~ValidUserId(data.user_id) THEN Raised(db, ErrInvalidUserId)
    ELSE IF find_by_user_id_and_date(db, data.user_id, data.work_date) # {}
    THEN Raised(db, ErrAlreadyExists)
    ELSE LET err == validate_clock_times(data.clock_in, data.clock_out,
                                         data.rest_in, data.rest_out)
             attendance == Attendance(generate(db), data, t)
             saved == save(db, attendance, t)
         IN  IF err # "" THEN Raised(db, err)
             ELSE ReturnResponse(saved.db, saved.entity)

\* Faulty variant: the request's value is ignored.
PyOr_stored(x, y) == y

\* "data.x or attendance.x": a datetime.time is always true, so the stored
\* value is taken exactly when the request's is None.
PyOr(x, y) == IF x # None THEN x[1] ELSE y

TimeFieldSupplied(data) ==
    \/ data.clock_in # None
    \/ data.clock_out # None
    \/ data.rest_in # None
    \/ data.rest_out # None

\* The attributes update_attendance reads from the request after validation,
\* and the keyword arguments it passes to Attendance.update.
update_attendance_reads ==
    {"date", "clock_in", "clock_out", "rest_in", "rest_out", "work_place",
     "transportation_expenses", "remarks", "updated_by"}

Attendance_update_params ==
    {"work_date", "clock_in", "clock_out", "rest_in", "rest_out", "work_place",
     "transportation_expenses", "remarks", "updated_by"}

update_attendance(db, attendance_id, data, t) ==
    LET found == find_by_id(db, attendance_id)
    IN  IF found = None THEN Returned(db, None)
        ELSE
        LET attendance == found[1]
            err == IF TimeFieldSupplied(data)
                   THEN validate_clock_times(
                            PyOr(data.clock_in, attendance.clock_in),
                            PyOr(data.clock_out, attendance.clock_out),
                            PyOr(data.rest_in, attendance.rest_in),
                            PyOr(data.rest_out, attendance.rest_out))
                   ELSE ""
            updated_attendance ==
                Attendance_update(attendance,
                    [work_date |-> None,
                     clock_in |-> data.clock_in, clock_out |-> data.clock_out,
                     rest_in |-> data.rest_in, rest_out |-> data.rest_out,
                     work_place |-> data.work_place,
                     transportation_expenses |-> data.transportation_expenses,
                     remarks |-> data.remarks,
                     updated_by |-> data.updated_by], t)
            saved == save(db, updated_attendance, t)
        IN  IF err # "" THEN Raised(db, err)
            ELSE IF ~(update_attendance_reads \subseteq AttendanceUpdateDTO_fields)
            THEN Raised(db, ErrAttribute)
            ELSE IF ~(update_attendance_reads \subseteq Attendance_update_params)
            THEN Raised(db, ErrType)
            ELSE ReturnResponse(saved.db, saved.entity)

delete_attendance(db, attendance_id, updated_by, t) ==
    LET found == find_by_id(db, attendance_id)
    IN  IF found = None THEN Returned(db, FALSE)
        ELSE
        LET deactivated == Attendance_deactivate(found[1], t)
            updated_attendance ==
                Attendance_update(deactivated, [NoArgs EXCEPT !.updated_by = updated_by], t)
            saved == save(db, updated_attendance, t)
        IN  Returned(saved.db, TRUE)

----------------------------------------------------------------------------
(* The attendance service as a state machine *)

NoOp == [op |-> "none", outcome |-> "returned", error |-> "", value |-> None]

\* A commit takes the clock's reading; the next commit reads a later one.
\* The clock starts at 1, so now - 1 counts the commits so far.
Commit(r) ==
    /\ Len(r.db) <= MaxAttendances
    /\ r.db # attendances => now <= MaxWrites
    /\ attendances' = r.db
    /\ now' = IF r.db # attendances THEN now + 1 ELSE now
    /\ UNCHANGED <<probe, users, user_roles, roles, requests>>

\* POST /attendances: the body becomes an AttendanceCreateDTO, or the request
\* ends there; then the service is called.
CreateAttendance ==
    \E data \in CreateRequests :
        LET accepted == AttendanceCreateDTO(data)
            r == IF accepted THEN create_attendance(attendances, data, now)
                 ELSE Raised(attendances, ErrGreaterEqual)
        IN  /\ Commit(r)
            /\ lastOp' = [op |-> IF accepted THEN "create_attendance"
                                 ELSE "AttendanceCreateDTO",
                          data |-> data,
                          outcome |-> r.outcome, error |-> r.error, value |-> r.value]

\* PUT /attendances/{id}: likewise, through AttendanceUpdateDTO.
UpdateAttendance ==
    \E attendance_id \in 1..(Len(attendances) + 1), data \in UpdateRequests :
        LET accepted == AttendanceUpdateDTO(data)
            r == IF accepted
                 THEN update_attendance(attendances, attendance_id, data, now)
                 ELSE Raised(attendances, ErrGreaterEqual)
        IN  /\ Commit(r)
            /\ lastOp' = [op |-> IF accepted THEN "update_attendance"
                                 ELSE "AttendanceUpdateDTO",
                          id |-> attendance_id,
                          data |-> data,
                          outcome |-> r.outcome, error |-> r.error, value |-> r.value]

DeleteAttendance ==
    \E attendance_id \in 1..(Len(attendances) + 1), updated_by \in {"", "bob"} :
        LET r == delete_attendance(attendances, attendance_id, updated_by, now)
        IN  /\ Commit(r)
            /\ lastOp' = [op |-> "delete_attendance", id |-> attendance_id,
                          updated_by |-> updated_by,
                          outcome |-> r.outcome, error |-> r.error, value |-> r.value]

\* The repository's own delete, which returns nothing.
Delete ==
    \E attendance_id \in 1..(Len(attendances) + 1) :
        /\ Commit([db |-> delete(attendances, attendance_id, now)])
        /\ lastOp' = [op |-> "delete", id |-> attendance_id,
                      outcome |-> "returned", error |-> "", value |-> None]

GetAttendance ==
    \E attendance_id \in 1..(Len(attendances) + 1) :
        LET r == get_attendance(attendances, attendance_id)
        IN  /\ Commit(r)
            /\ lastOp' = [op |-> "get_attendance", id |-> attendance_id,
                          outcome |-> r.outcome, error |-> r.error, value |-> r.value]

NoProbe == Quad(T0900, T1800, T1200, T1300)

AttendanceInit ==
    /\ attendances = <<>>
    /\ now = 1
    /\ lastOp = NoOp
    /\ probe = NoProbe
    /\ users = <<>>
    /\ user_roles = <<>>
    /\ roles = {}
    /\ requests = <<>>

AttendanceNext ==
    \/ Delete
    \/ CreateAttendance
    \/ UpdateAttendance
    \/ DeleteAttendance
    \/ GetAttendance

AttendanceSpec == AttendanceInit /\ [][AttendanceNext]_vars

----------------------------------------------------------------------------
(* Role constants: domain/constants/roles.py *)

USER_ROLE == "user_role"
MANAGER_ROLE == "manager_role"
ADMIN_ROLE == "admin_role"

\* ROLE_HIERARCHY.get(role_name, 0)
get_role_level(role_name) ==
    CASE role_name = USER_ROLE -> 1
      [] role_name = MANAGER_ROLE -> 2
      [] role_name = ADMIN_ROLE -> 3
      [] OTHER -> 0

\* The catalog the role migration inserts: one active row per default role.
MigratedRoles ==
    { [id |-> "role-1", role_name |-> USER_ROLE, delete_flag |-> FALSE],
      [id |-> "role-2", role_name |-> MANAGER_ROLE, delete_flag |-> FALSE],
      [id |-> "role-3", role_name |-> ADMIN_ROLE, delete_flag |-> FALSE] }

----------------------------------------------------------------------------
(* SQLAlchemyUserRepository: infrastructure/repositories/user_repository.py *)

ErrRoleNotFound(role_name) == <<"Role not found", role_name>>
ErrEmailExists == "User with email already exists"

\* The queries' filter UserModel.id == user_id, delete_flag == False.
ActiveUser(db, user_id) ==
    user_id \in 1..Len(db.users) /\ ~db.users[user_id].delete_flag

\* The columns of the user_info row kept in the user's row.
UserInfoColumns == {"info_delete_flag", "info_updated_at", "info_updated_by"}

\* _to_entity(user, user_info): the user's columns, and first_name of the
\* user_info row the query found (delete_flag == False), else None.
to_entity(row) ==
    [x \in DOMAIN row \ UserInfoColumns |->
        IF x = "first_name" /\ row.info_delete_flag THEN None ELSE row[x]]

\* find_by_id
user_find_by_id(db, user_id) ==
    IF ActiveUser(db, user_id) THEN Some(to_entity(db.users[user_id])) ELSE None

\* Faulty variant: the delete_flag filter inverted.
find_by_email_deleted(db, email) ==
    { i \in 1..Len(db.users) :
        db.users[i].email = email /\ db.users[i].delete_flag }

\* find_by_email: the active users with this email (the code takes .first()).
find_by_email(db, email) ==
    { i \in 1..Len(db.users) :
        db.users[i].email = email /\ ~db.users[i].delete_flag }

\* The rows of "roles" a transition or create looks its target up in:
\* role_name == name, delete_flag == False.
CatalogRole(db, role_name) ==
    { r \in db.roles : r.role_name = role_name /\ ~r.delete_flag }

\* The join a transition checks its source role with: the user's assignments
\* that are not retired and whose role row carries the name.
HeldAssignments(db, user_id, role_name) ==
    { i \in 1..Len(db.user_roles) :
        /\ db.user_roles[i].user_id = user_id
        /\ ~db.user_roles[i].delete_flag
        /\ \E r \in db.roles :
              r.id = db.user_roles[i].role_id /\ r.role_name = role_name }

NewAssignment(db, user_id, role_id, by, t) ==
    [id |-> Len(db.user_roles) + 1, user_id |-> user_id, role_id |-> role_id,
     delete_flag |-> FALSE, created_at |-> t, created_by |-> by,
     updated_at |-> t, updated_by |-> by]

URaised(db, err) == [db |-> db, outcome |-> "raised", error |-> err, value |-> None]
UReturned(db, v) == [db |-> db, outcome |-> "returned", error |-> "", value |-> v]

\* The columns of the user's user_info row that the model keeps beside the
\* user's own: first_name comes from the entity, the rest from the arguments.
WithUserInfo(user, delete_flag, t, by) ==
    [x \in DOMAIN user \cup {"info_delete_flag", "info_updated_at", "info_updated_by"} |->
        CASE x = "info_delete_flag" -> delete_flag
          [] x = "info_updated_at" -> t
          [] x = "info_updated_by" -> by
          [] OTHER -> user[x]]

\* Faulty variant of create: the user row is committed before the role is
\* looked up.
user_create_before_role(db, user, t) ==
    LET role == CatalogRole(db, USER_ROLE)
        row == WithUserInfo([user EXCEPT !.id = Len(db.users) + 1], FALSE,
                            user.updated_at, user.updated_by)
        role_id == (CHOOSE r \in role : TRUE).id
    IN  IF role = {}
        THEN URaised([db EXCEPT !.users = Append(@, row)],
                     ErrRoleNotFound(USER_ROLE))
        ELSE UReturned(
                [db EXCEPT !.users = Append(@, row),
                           !.user_roles =
                               Append(@, NewAssignment(db, row.id, role_id,
                                                       user.created_by, t))],
                Some(row))

\* create: the user row, its user_info row and its default user_role
\* assignment, in one commit.
user_create(db, user, t) ==
    LET role == CatalogRole(db, USER_ROLE)
        row == WithUserInfo([user EXCEPT !.id = Len(db.users) + 1], FALSE,
                            user.updated_at, user.updated_by)
        role_id == (CHOOSE r \in role : TRUE).id
    IN  IF role = {} THEN URaised(db, ErrRoleNotFound(USER_ROLE))
        ELSE UReturned(
                [db EXCEPT !.users = Append(@, row),
                           !.user_roles =
                               Append(@, NewAssignment(db, row.id, role_id,
                                                       user.created_by, t))],
                Some(row))

\* delete: mark the user row and its user_info row deleted.
user_delete(db, user_id, t) ==
    IF user_id \in 1..Len(db.users)
    THEN [db EXCEPT !.users[user_id].delete_flag = TRUE,
                    !.users[user_id].updated_at = t,
                    !.users[user_id].info_delete_flag = TRUE,
                    !.users[user_id].info_updated_at = t]
    ELSE db

\* Faulty variants of the transition: one that answers None when the target
\* role is not in the catalog, and one that rewrites the held assignment's role
\* in place instead of retiring it.
role_transition_silent(db, user_id, source, target, pick, t) ==
    LET held == HeldAssignments(db, user_id, source)
        cat == CatalogRole(db, target)
        target_id == (CHOOSE r \in cat : TRUE).id
        user == db.users[user_id]
        first == IF pick \in held THEN pick ELSE CHOOSE i \in held : TRUE
        db2 == [db EXCEPT
                  !.user_roles =
                      Append([@ EXCEPT ![first].delete_flag = TRUE,
                                       ![first].updated_at = t],
                             NewAssignment(db, user_id, target_id, user.updated_by, t)),
                  !.users[user_id].updated_at = t]
    IN  IF ~ActiveUser(db, user_id) THEN UReturned(db, None)
        ELSE IF held = {} THEN UReturned(db, None)
        ELSE IF cat = {} THEN UReturned(db, None)
        ELSE UReturned(db2, Some(db2.users[user_id]))

role_transition_in_place(db, user_id, source, target, pick, t) ==
    LET held == HeldAssignments(db, user_id, source)
        cat == CatalogRole(db, target)
        target_id == (CHOOSE r \in cat : TRUE).id
        first == IF pick \in held THEN pick ELSE CHOOSE i \in held : TRUE
        db2 == [db EXCEPT
                  !.user_roles[first].role_id = target_id,
                  !.user_roles[first].updated_at = t,
                  !.users[user_id].updated_at = t]
    IN  IF ~ActiveUser(db, user_id) THEN UReturned(db, None)
        ELSE IF held = {} THEN UReturned(db, None)
        ELSE IF cat = {} THEN URaised(db, ErrRoleNotFound(target))
        ELSE UReturned(db2, Some(db2.users[user_id]))

\* The four transitions share one shape: the user must be active and hold the
\* source role, the target role must be in the catalog; then the assignment
\* .first() returned is retired, one assignment of the target role is added and
\* the user's updated_at is refreshed.  The query has no ORDER BY: pick is the
\* row the database puts first when it matches, else some matching row is.
role_transition(db, user_id, source, target, pick, t) ==
    LET held == HeldAssignments(db, user_id, source)
        cat == CatalogRole(db, target)
        target_id == (CHOOSE r \in cat : TRUE).id
        user == db.users[user_id]
        first == IF pick \in held THEN pick ELSE CHOOSE i \in held : TRUE
        db2 == [db EXCEPT
                  !.user_roles =
                      Append([@ EXCEPT ![first].delete_flag = TRUE,
                                       ![first].updated_at = t],
                             NewAssignment(db, user_id, target_id, user.updated_by, t)),
                  !.users[user_id].updated_at = t]
    IN  IF ~ActiveUser(db, user_id) THEN UReturned(db, None)
        ELSE IF held = {} THEN UReturned(db, None)
        ELSE IF cat = {} THEN URaised(db, ErrRoleNotFound(target))
        ELSE UReturned(db2, Some(db2.users[user_id]))

\* Faulty variants: a promotion that skips a level, one that starts from the
\* wrong role, and a demotion that lands on the wrong role.
promote_to_manager_skipping(db, user_id, pick, t) ==
    role_transition(db, user_id, USER_ROLE, ADMIN_ROLE, pick, t)

promote_to_admin_from_user(db, user_id, pick, t) ==
    role_transition(db, user_id, USER_ROLE, ADMIN_ROLE, pick, t)

demote_from_admin_to_user(db, user_id, pick, t) ==
    role_transition(db, user_id, ADMIN_ROLE, USER_ROLE, pick, t)

promote_to_manager(db, user_id, pick, t) ==
    role_transition(db, user_id, USER_ROLE, MANAGER_ROLE, pick, t)

promote_to_admin(db, user_id, pick, t) ==
    role_transition(db, user_id, MANAGER_ROLE, ADMIN_ROLE, pick, t)

demote_from_admin_to_manager(db, user_id, pick, t) ==
    role_transition(db, user_id, ADMIN_ROLE, MANAGER_ROLE, pick, t)

demote_from_manager_to_user(db, user_id, pick, t) ==
    role_transition(db, user_id, MANAGER_ROLE, USER_ROLE, pick, t)

\* Faulty variant: any rank of the hierarchy passes.
has_manager_role_any_rank(db, user_id) ==
    \E i \in 1..Len(db.user_roles) :
        /\ db.user_roles[i].user_id = user_id
        /\ ~db.user_roles[i].delete_flag
        /\ \E r \in db.roles :
              /\ r.id = db.user_roles[i].role_id
              /\ ~r.delete_flag
              /\ get_role_level(r.role_name) >= get_role_level(USER_ROLE)

\* has_manager_role: some active assignment of an active role of level >= 2.
has_manager_role(db, user_id) ==
    \E i \in 1..Len(db.user_roles) :
        /\ db.user_roles[i].user_id = user_id
        /\ ~db.user_roles[i].delete_flag
        /\ \E r \in db.roles :
              /\ r.id = db.user_roles[i].role_id
              /\ ~r.delete_flag
              /\ get_role_level(r.role_name) >= get_role_level(MANAGER_ROLE)

\* UserId(value): the user a well-formed id string names; uuid.UUID raises
\* ValueError on any other string.
UserIdStrings == <<"id-1", "id-2", "id-3">>
UserId(value) == { i \in DOMAIN UserIdStrings : UserIdStrings[i] = value }

ErrUserNotFound == "User not found"
ErrInvalidManagerId == "Invalid manager ID"

\* Faulty variant of update: the manager is looked up, its role is not.
user_update_any_manager(db, user, t) ==
    LET known == user.id \in 1..Len(db.users)
        db_user == db.users[user.id]
        manager == UserId(user.manager_id[1])
        refused == /\ user.manager_id # db_user.manager_id
                   /\ user.manager_id # None
                   /\ \/ manager = {}
                      \/ \E m \in manager : ~ActiveUser(db, m)
        info == IF db_user.info_delete_flag
                THEN WithUserInfo(user, FALSE, user.updated_at, user.updated_by)
                ELSE WithUserInfo(user, FALSE, t, user.updated_by)
        db2 == [db EXCEPT !.users[user.id] =
                             [info EXCEPT !.created_at = db_user.created_at,
                                          !.created_by = db_user.created_by,
                                          !.updated_at = t]]
    IN  IF ~known THEN URaised(db, ErrUserNotFound)
        ELSE IF refused THEN URaised(db, ErrInvalidManagerId)
        ELSE UReturned(db2, Some(to_entity(db2.users[user.id])))

\* update: a manager_id that differs from the stored one and is not None
\* must name an active user with manager privileges; then the user's columns
\* (created_at and created_by excepted) and the user_info row are written.
user_update(db, user, t) ==
    LET known == user.id \in 1..Len(db.users)
        db_user == db.users[user.id]
        manager == UserId(user.manager_id[1])
        refused == /\ user.manager_id # db_user.manager_id
                   /\ user.manager_id # None
                   /\ \/ manager = {}
                      \/ \E m \in manager :
                            ~ActiveUser(db, m) \/ ~has_manager_role(db, m)
        info == IF db_user.info_delete_flag
                THEN WithUserInfo(user, FALSE, user.updated_at, user.updated_by)
                ELSE WithUserInfo(user, FALSE, t, user.updated_by)
        db2 == [db EXCEPT !.users[user.id] =
                             [info EXCEPT !.created_at = db_user.created_at,
                                          !.created_by = db_user.created_by,
                                          !.updated_at = t]]
    IN  IF ~known THEN URaised(db, ErrUserNotFound)
        ELSE IF refused THEN URaised(db, ErrInvalidManagerId)
        ELSE UReturned(db2, Some(to_entity(db2.users[user.id])))

----------------------------------------------------------------------------
(* User: domain/entities/user.py *)

User_activate(self, t) ==
    IF ~self.delete_flag THEN self
    ELSE [self EXCEPT !.delete_flag = FALSE, !.updated_at = t]

User_deactivate(self, t) ==
    IF self.delete_flag THEN self
    ELSE [self EXCEPT !.delete_flag = TRUE, !.updated_at = t]

\* Faulty variant: the old updated_at is carried over.
User_update_username_stale(self, username, t) ==
    [self EXCEPT !.username = username]

User_update_username(self, username, t) ==
    [self EXCEPT !.username = username, !.updated_at = t]

----------------------------------------------------------------------------
(* UserService: application/services/user_service.py *)

\* create_user: reject an email an active user has, else create.
create_user(db, data, t) ==
    IF find_by_email(db, data.email) # {} THEN URaised(db, ErrEmailExists)
    ELSE user_create(db,
            [id |-> 0, email |-> data.email, username |-> data.username,
             manager_id |-> None,
             delete_flag |-> FALSE, created_at |-> t,
             created_by |-> data.created_by, updated_at |-> t,
             updated_by |-> data.updated_by,
             first_name |-> data.first_name], t)

\* Faulty variant: the repository's delete is called without the lookup.
delete_user_unchecked(db, user_id, t) ==
    UReturned(user_delete(db, user_id, t), TRUE)

delete_user(db, user_id, t) ==
    IF user_find_by_id(db, user_id) = None THEN UReturned(db, FALSE)
    ELSE UReturned(user_delete(db, user_id, t), TRUE)

get_user(db, user_id) == UReturned(db, user_find_by_id(db, user_id))

\* "if x" on an optional string: neither None nor empty.
Truthy(x) == x # None /\ x[1] # ""

\* Faulty variant of update_user: the user is fetched whatever its
\* delete_flag.
update_user_of_any(db, user_id, data, t) ==
    LET known == user_id \in 1..Len(db.users)
        user == to_entity(db.users[user_id])
        renamed == IF Truthy(data.username)
                   THEN User_update_username(user, data.username[1], t)
                   ELSE user
        flagged == IF data.delete_flag = None THEN renamed
                   ELSE IF ~data.delete_flag[1] THEN User_activate(renamed, t)
                   ELSE User_deactivate(renamed, t)
        updated_user ==
            [flagged EXCEPT
               !.manager_id = IF Truthy(data.manager_id) THEN data.manager_id ELSE @,
               !.updated_at = t,
               !.updated_by = data.updated_by,
               !.first_name = IF data.first_name # None THEN data.first_name ELSE @]
    IN  IF ~known THEN UReturned(db, None)
        ELSE user_update(db, updated_user, t)

\* update_user: None for an id no active user has; else the entity with the
\* supplied fields, handed to the repository's update.
update_user(db, user_id, data, t) ==
    LET found == user_find_by_id(db, user_id)
        user == found[1]
        renamed == IF Truthy(data.username)
                   THEN User_update_username(user, data.username[1], t)
                   ELSE user
        flagged == IF data.delete_flag = None THEN renamed
                   ELSE IF ~data.delete_flag[1] THEN User_activate(renamed, t)
                   ELSE User_deactivate(renamed, t)
        updated_user ==
            [flagged EXCEPT
               !.manager_id = IF Truthy(data.manager_id) THEN data.manager_id ELSE @,
               !.updated_at = t,
               !.updated_by = data.updated_by,
               !.first_name = IF data.first_name # None THEN data.first_name ELSE @]
    IN  IF found = None THEN UReturned(db, None)
        ELSE user_update(db, updated_user, t)

----------------------------------------------------------------------------
(* PUT /users/{user_id}: interfaces/api/v1/endpoints/users.py *)

ErrForbidden == "403 Insufficient privileges to update manager ID"
ErrNotFound == "404 User not found"

\* Faulty variant of the endpoint: no privilege check at all.
endpoint_update_user_unchecked(db, user_id, data, t) ==
    LET r == update_user(db, user_id, data, t)
    IN  IF r.outcome = "returned" /\ r.value = None
        THEN URaised(db, ErrNotFound)
        ELSE r

\* The privilege check runs when a manager_id is given and updated_by is a
\* non-empty, well-formed user id; a malformed updated_by skips it.
endpoint_update_user(db, user_id, data, t) ==
    LET updated_by_id == UserId(data.updated_by)
        forbidden == /\ data.manager_id # None
                     /\ data.updated_by # ""
                     /\ \E u \in updated_by_id : ~has_manager_role(db, u)
        r == update_user(db, user_id, data, t)
    IN  IF forbidden THEN URaised(db, ErrForbidden)
        ELSE IF r.outcome = "returned" /\ r.value = None
        THEN URaised(db, ErrNotFound)
        ELSE r

----------------------------------------------------------------------------
(* Users and role assignments as a state machine *)

UserDb == [users |-> users, user_roles |-> user_roles, roles |-> roles]

UserCommit(r) ==
    /\ Len(r.db.users) <= MaxUsers
    /\ r.db # UserDb => now <= MaxUserWrites
    /\ users' = r.db.users
    /\ user_roles' = r.db.user_roles
    /\ roles' = r.db.roles
    /\ now' = IF r.db # UserDb THEN now + 1 ELSE now
    /\ UNCHANGED <<attendances, probe, requests>>

\* The ids a request may name: every row's and one no row has.
RequestUserIds == 1..(Len(users) + 1)

\* The rows the database may put first in a query on user_roles.
Picks == 0..Len(user_roles)

\* The create requests: each email, with its own creator.
CreateUserRequests ==
    { [email |-> "a@example.com", username |-> "alice", first_name |-> None,
       created_by |-> "alice", updated_by |-> "alice"],
      [email |-> "b@example.com", username |-> "bob", first_name |-> Some("Bob"),
       created_by |-> "bob", updated_by |-> "bob"] }

CreateUser ==
    \E data \in CreateUserRequests :
        LET r == create_user(UserDb, data, now)
        IN  /\ UserCommit(r)
            /\ lastOp' = [op |-> "create_user", data |-> data,
                          outcome |-> r.outcome, error |-> r.error, value |-> r.value]

DeleteUser ==
    \E user_id \in RequestUserIds :
        LET r == delete_user(UserDb, user_id, now)
        IN  /\ UserCommit(r)
            /\ lastOp' = [op |-> "delete_user", id |-> user_id,
                          outcome |-> r.outcome, error |-> r.error, value |-> r.value]

PromoteToManager ==
    \E user_id \in RequestUserIds :
        \E pick \in Picks :
            LET r == promote_to_manager(UserDb, user_id, pick, now)
            IN  /\ UserCommit(r)
                /\ lastOp' = [op |-> "promote_to_manager", id |-> user_id,
                              outcome |-> r.outcome, error |-> r.error,
                              value |-> r.value]

PromoteToAdmin ==
    \E user_id \in RequestUserIds :
        \E pick \in Picks :
            LET r == promote_to_admin(UserDb, user_id, pick, now)
            IN  /\ UserCommit(r)
                /\ lastOp' = [op |-> "promote_to_admin", id |-> user_id,
                              outcome |-> r.outcome, error |-> r.error,
                              value |-> r.value]

DemoteFromAdminToManager ==
    \E user_id \in RequestUserIds :
        \E pick \in Picks :
            LET r == demote_from_admin_to_manager(UserDb, user_id, pick, now)
            IN  /\ UserCommit(r)
                /\ lastOp' = [op |-> "demote_from_admin_to_manager", id |-> user_id,
                              outcome |-> r.outcome, error |-> r.error,
                              value |-> r.value]

DemoteFromManagerToUser ==
    \E user_id \in RequestUserIds :
        \E pick \in Picks :
            LET r == demote_from_manager_to_user(UserDb, user_id, pick, now)
            IN  /\ UserCommit(r)
                /\ lastOp' = [op |-> "demote_from_manager_to_user", id |-> user_id,
                              outcome |-> r.outcome, error |-> r.error,
                              value |-> r.value]

RoleInit ==
    /\ attendances = <<>>
    /\ now = 1
    /\ lastOp = NoOp
    /\ probe = NoProbe
    /\ users = <<>>
    /\ user_roles = <<>>
    /\ roles = MigratedRoles
    /\ requests = <<>>

RoleNext ==
    \/ CreateUser
    \/ DeleteUser
    \/ PromoteToManager
    \/ PromoteToAdmin
    \/ DemoteFromAdminToManager
    \/ DemoteFromManagerToUser

RoleSpec == RoleInit /\ [][RoleNext]_vars

----------------------------------------------------------------------------
(* The pure functions on times of day, probed with every quadruple *)

ClockQuads ==
    { Quad(ci, co, ri, ro) : ci \in ClockTimes, co \in ClockTimes,
                             ri \in ClockTimes, ro \in ClockTimes }

ValidateProbe ==
    /\ lastOp' = [op |-> "validate_clock_times",
                  error |-> validate_clock_times(probe.clock_in, probe.clock_out,
                                                 probe.rest_in, probe.rest_out)]
    /\ UNCHANGED <<attendances, now, probe, users, user_roles, roles, requests>>

CalculateProbe ==
    /\ lastOp' = [op |-> "calculate_hours",
                  working_hours |-> calculate_working_hours(probe),
                  rest_hours |-> calculate_rest_hours(probe)]
    /\ UNCHANGED <<attendances, now, probe, users, user_roles, roles, requests>>

ClockInit ==
    /\ attendances = <<>>
    /\ now = 1
    /\ lastOp = NoOp
    /\ probe \in ClockQuads
    /\ users = <<>>
    /\ user_roles = <<>>
    /\ roles = {}
    /\ requests = <<>>

ClockNext ==
    \/ ValidateProbe
    \/ CalculateProbe

ClockSpec == ClockInit /\ [][ClockNext]_vars

----------------------------------------------------------------------------
(* What the claims speak of *)

\* secondsOf(t) = hour*3600 + minute*60 + second
SecondsOf(t) == t[1] * 3600 + t[2] * 60 + t[3]

Before(a, b) == SecondsOf(a) < SecondsOf(b)

\* clock_in < rest_in < rest_out < clock_out
StrictlyOrdered(q) ==
    /\ Before(q.clock_in, q.rest_in)
    /\ Before(q.rest_in, q.rest_out)
    /\ Before(q.rest_out, q.clock_out)

HasActiveRecord(db, user_id, work_date) ==
    \E i \in 1..Len(db) :
        /\ db[i].user_id = user_id
        /\ db[i].work_date = work_date
        /\ ~db[i].delete_flag

IsActiveRecord(db, id) == id \in 1..Len(db) /\ ~db[id].delete_flag

Supplied(x, stored) == IF x = None THEN stored ELSE x[1]

\* The request's times, a missing one taken from the stored row.
MergedTimes(data, row) ==
    Quad(Supplied(data.clock_in, row.clock_in),
         Supplied(data.clock_out, row.clock_out),
         Supplied(data.rest_in, row.rest_in),
         Supplied(data.rest_out, row.rest_out))

SuppliesATime(data) ==
    ~(data.clock_in = None /\ data.clock_out = None
      /\ data.rest_in = None /\ data.rest_out = None)

TimesOf(row) == Quad(row.clock_in, row.clock_out, row.rest_in, row.rest_out)

SameTimes(db1, db2) ==
    /\ Len(db1) = Len(db2)
    /\ \A i \in 1..Len(db1) : TimesOf(db1[i]) = TimesOf(db2[i])

----------------------------------------------------------------------------
(* C1 -- create_attendance, called with a valid user id and no active record
   for (user_id, work_date), returns the created record if and only if
   clock_in < rest_in < rest_out < clock_out holds strictly; otherwise it is
   rejected. *)
C1_CreateReturnsIffOrdered ==
    [][ ( /\ lastOp'.op = "create_attendance"
          /\ ValidUserId(lastOp'.data.user_id)
          /\ ~HasActiveRecord(attendances, lastOp'.data.user_id,
                              lastOp'.data.work_date) )
        => IF StrictlyOrdered(lastOp'.data)
           THEN /\ lastOp'.outcome = "returned"
                /\ lastOp'.value # None
                /\ Len(attendances') = Len(attendances) + 1
           ELSE /\ lastOp'.outcome = "raised"
                /\ attendances' = attendances ]_vars

(* C2 -- no two stored records with delete_flag = false share (user_id,
   work_date), whatever calls were made; a create_attendance for a pair that
   has an active record raises an error and adds nothing. *)
UniqueActive(db) ==
    \A i, j \in 1..Len(db) :
        (i < j /\ ~db[i].delete_flag /\ ~db[j].delete_flag)
        => ~(db[i].user_id = db[j].user_id /\ db[i].work_date = db[j].work_date)

C2_OneActivePerUserAndDate ==
    /\ []UniqueActive(attendances)
    /\ [][ ( /\ lastOp'.op = "create_attendance"
             /\ HasActiveRecord(attendances, lastOp'.data.user_id,
                                lastOp'.data.work_date) )
           => /\ lastOp'.outcome = "raised"
              /\ attendances' = attendances ]_vars

\* A create was refused as a duplicate while the table holds a deleted and an
\* active record of the same user and date.
C2_Witness ==
    /\ lastOp.op = "create_attendance"
    /\ lastOp.error = ErrAlreadyExists
    /\ \E i, j \in 1..Len(attendances) :
          /\ attendances[i].delete_flag /\ ~attendances[j].delete_flag
          /\ attendances[i].user_id = attendances[j].user_id
          /\ attendances[i].work_date = attendances[j].work_date

----------------------------------------------------------------------------
(* Roles, as the claims speak of them *)

TransitionOps ==
    {"promote_to_manager", "promote_to_admin",
     "demote_from_admin_to_manager", "demote_from_manager_to_user"}

SourceOf(op) ==
    CASE op = "promote_to_manager" -> USER_ROLE
      [] op = "promote_to_admin" -> MANAGER_ROLE
      [] op = "demote_from_admin_to_manager" -> ADMIN_ROLE
      [] op = "demote_from_manager_to_user" -> MANAGER_ROLE

TargetOf(op) ==
    CASE op = "promote_to_manager" -> MANAGER_ROLE
      [] op = "promote_to_admin" -> ADMIN_ROLE
      [] op = "demote_from_admin_to_manager" -> MANAGER_ROLE
      [] op = "demote_from_manager_to_user" -> USER_ROLE

RoleNameOf(rl, role_id) == (CHOOSE r \in rl : r.id = role_id).role_name

IsActiveUser(us, u) == u \in 1..Len(us) /\ ~us[u].delete_flag

\* The active assignments of user u to the role named name.
ActiveAssignments(ur, rl, u, name) ==
    { i \in 1..Len(ur) :
        ur[i].user_id = u /\ ~ur[i].delete_flag
        /\ RoleNameOf(rl, ur[i].role_id) = name }

\* The names of the roles user u is actively assigned.
ActiveRoleNames(ur, rl, u) ==
    { RoleNameOf(rl, ur[i].role_id) :
        i \in { j \in 1..Len(ur) : ur[j].user_id = u /\ ~ur[j].delete_flag } }

(* C3 -- each of the four transitions succeeds exactly when the user is active
   and holds an active assignment of the transition's source role; it then
   retires that assignment and adds one active assignment of the target role.
   Otherwise it returns None and changes nothing. *)
C3_TransitionsFollowTheHierarchy ==
    [][ lastOp'.op \in TransitionOps =>
        LET u == lastOp'.id
            src == SourceOf(lastOp'.op)
            tgt == TargetOf(lastOp'.op)
            n == Len(user_roles)
        IN  IF IsActiveUser(users, u)
               /\ ActiveAssignments(user_roles, roles, u, src) # {}
            THEN /\ lastOp'.outcome = "returned"
                 /\ lastOp'.value # None
                 /\ Len(user_roles') = n + 1
                 /\ \E i \in ActiveAssignments(user_roles, roles, u, src) :
                       /\ user_roles'[i].delete_flag
                       /\ \A j \in (1..n) \ {i} : user_roles'[j] = user_roles[j]
                 /\ user_roles'[n + 1].user_id = u
                 /\ ~user_roles'[n + 1].delete_flag
                 /\ RoleNameOf(roles', user_roles'[n + 1].role_id) = tgt
            ELSE /\ lastOp'.outcome = "returned"
                 /\ lastOp'.value = None
                 /\ user_roles' = user_roles
                 /\ users' = users
                 /\ roles' = roles ]_vars

\* The demotion to user succeeded for a manager, after a transition was
\* refused for a deleted user.
C3_Witness ==
    /\ lastOp.op = "demote_from_manager_to_user"
    /\ lastOp.value # None
    /\ ActiveRoleNames(user_roles, roles, lastOp.id) = {USER_ROLE}
    /\ \E u \in 1..Len(users) : users[u].delete_flag

(* C4 -- for a user whose only active role is user: promote_to_manager
   succeeds and a second promote_to_manager fails; promote_to_admin then
   succeeds; demote_from_admin_to_manager then succeeds, and a promote_to_manager
   after it fails. *)
C4_PromoteDemoteScenario ==
    [][ \A u \in 1..Len(users) :
          (lastOp'.op \in TransitionOps /\ lastOp'.id = u /\ IsActiveUser(users, u))
          =>
          LET held == ActiveRoleNames(user_roles, roles, u)
              after == ActiveRoleNames(user_roles', roles', u)
              op == lastOp'.op
          IN  /\ (op = "promote_to_manager" /\ held = {USER_ROLE})
                 => (lastOp'.value # None /\ after = {MANAGER_ROLE})
              /\ (op = "promote_to_manager" /\ held = {MANAGER_ROLE})
                 => (lastOp'.value = None /\ after = held)
              /\ (op = "promote_to_admin" /\ held = {MANAGER_ROLE})
                 => (lastOp'.value # None /\ after = {ADMIN_ROLE})
              /\ (op = "demote_from_admin_to_manager" /\ held = {ADMIN_ROLE})
                 => (lastOp'.value # None /\ after = {MANAGER_ROLE}) ]_vars

\* The whole scenario has run for one user: the assignments record user,
\* manager, admin, manager in this order, the last one active, and the last
\* call was a refused promote_to_manager.
C4_Witness ==
    /\ lastOp.op = "promote_to_manager"
    /\ lastOp.value = None
    /\ IsActiveUser(users, lastOp.id)
    /\ LET mine == SelectSeq(user_roles, LAMBDA a : a.user_id = lastOp.id)
       IN  /\ Len(mine) = 4
           /\ [i \in 1..4 |-> RoleNameOf(roles, mine[i].role_id)]
                = <<USER_ROLE, MANAGER_ROLE, ADMIN_ROLE, MANAGER_ROLE>>
           /\ [i \in 1..4 |-> mine[i].delete_flag] = <<TRUE, TRUE, TRUE, FALSE>>

(* C5 -- a user created through the repository has, after any sequence of the
   four transitions, exactly one active assignment of a hierarchical role, and
   every successful transition changes the rank of that role by exactly one. *)
HierarchicalAssignments(ur, rl, u) ==
    { i \in 1..Len(ur) :
        /\ ur[i].user_id = u
        /\ ~ur[i].delete_flag
        /\ get_role_level(RoleNameOf(rl, ur[i].role_id)) >= 1 }

RankOf(ur, rl, u) ==
    LET i == CHOOSE j \in HierarchicalAssignments(ur, rl, u) : TRUE
    IN  get_role_level(RoleNameOf(rl, ur[i].role_id))

C5_OneRoleMovingOneStep ==
    /\ [](\A u \in 1..Len(users) :
            Cardinality(HierarchicalAssignments(user_roles, roles, u)) = 1)
    /\ [][ (lastOp'.op \in TransitionOps /\ lastOp'.value # None)
           => LET before == RankOf(user_roles, roles, lastOp'.id)
                  after == RankOf(user_roles', roles', lastOp'.id)
              IN  after - before \in {-1, 1} ]_vars

\* A user has been moved up to admin and back down to manager, beside a second
\* user.
C5_Witness ==
    /\ lastOp.op = "demote_from_admin_to_manager"
    /\ lastOp.value # None
    /\ RankOf(user_roles, roles, lastOp.id) = 2
    /\ Len(users) = 2

----------------------------------------------------------------------------
(* C6 -- update_attendance on a found record, with at least one time field
   supplied, validates the merged times (the supplied ones, the stored ones
   for the rest): when they violate the strict ordering the call raises a
   time-order error and the stored record is unchanged; when they satisfy it
   no time-order error is raised. *)
C6_UpdateValidatesMergedTimes ==
    [][ ( /\ lastOp'.op = "update_attendance"
          /\ IsActiveRecord(attendances, lastOp'.id)
          /\ SuppliesATime(lastOp'.data) )
        => IF StrictlyOrdered(MergedTimes(lastOp'.data, attendances[lastOp'.id]))
           THEN lastOp'.error \notin TimeOrderErrors
           ELSE /\ lastOp'.outcome = "raised"
                /\ lastOp'.error \in TimeOrderErrors
                /\ attendances' = attendances ]_vars

\* One supplied time made a well-ordered stored record's merged times
\* ill-ordered, and the update was refused for it.
C6_Witness ==
    /\ lastOp.op = "update_attendance"
    /\ lastOp.error \in TimeOrderErrors
    /\ IsActiveRecord(attendances, lastOp.id)
    /\ StrictlyOrdered(TimesOf(attendances[lastOp.id]))
    /\ lastOp.data.clock_out # None
    /\ lastOp.data.rest_out = None
    /\ ~StrictlyOrdered(MergedTimes(lastOp.data, attendances[lastOp.id]))

(* C7 -- update_attendance on a found record whose merged times are valid
   succeeds: the stored record takes the supplied fields and keeps the omitted
   ones, its updated_at is the time of the call and its updated_by is the
   supplied one, or the prior one when none is supplied. *)
C7_UpdateStoresSuppliedFields ==
    [][ ( /\ lastOp'.op = "update_attendance"
          /\ IsActiveRecord(attendances, lastOp'.id)
          /\ SuppliesATime(lastOp'.data)
             => StrictlyOrdered(MergedTimes(lastOp'.data, attendances[lastOp'.id])) )
        => LET old == attendances[lastOp'.id]
               new == attendances'[lastOp'.id]
               data == lastOp'.data
           IN  /\ lastOp'.outcome = "returned"
               /\ TimesOf(new) = MergedTimes(data, old)
               /\ new.work_place =
                    IF data.work_place # None THEN data.work_place ELSE old.work_place
               /\ new.remarks =
                    IF data.remarks # None THEN data.remarks ELSE old.remarks
               /\ new.transportation_expenses =
                    IF data.transportation_expenses # None
                    THEN data.transportation_expenses
                    ELSE old.transportation_expenses
               /\ new.updated_at = now
               /\ new.updated_by =
                    IF data.updated_by # "" THEN data.updated_by ELSE old.updated_by ]_vars

(* C8 -- an update that supplies none of the four time fields raises no
   time-order error and leaves the four stored times of every record as they
   were, so a record that satisfied the strict ordering still satisfies it. *)
C8_NoTimeFieldNoTimeChange ==
    [][ ( \/ lastOp'.op = "update_attendance" /\ ~SuppliesATime(lastOp'.data)
          \/ lastOp'.op = "delete_attendance" )
        => /\ lastOp'.error \notin TimeOrderErrors
           /\ SameTimes(attendances, attendances')
           /\ \A i \in 1..Len(attendances) :
                 StrictlyOrdered(TimesOf(attendances[i]))
                 => StrictlyOrdered(TimesOf(attendances'[i])) ]_vars

\* An update_attendance without time fields has met a stored record, beside a
\* record on which Attendance.update ran with no time argument and was saved
\* (the update delete_attendance makes, here with updated_by "bob").
C8_Witness ==
    /\ lastOp.op = "update_attendance"
    /\ ~SuppliesATime(lastOp.data)
    /\ IsActiveRecord(attendances, lastOp.id)
    /\ lastOp.error \notin TimeOrderErrors
    /\ StrictlyOrdered(TimesOf(attendances[lastOp.id]))
    /\ \E i \in 1..Len(attendances) :
          /\ attendances[i].delete_flag
          /\ attendances[i].updated_by = "bob"
          /\ StrictlyOrdered(TimesOf(attendances[i]))

(* C9 -- the validation checks clock_in against rest_in, then rest_in against
   rest_out, then rest_out against clock_out, each violated when the earlier
   time is not strictly before the later one, and reports the first violated
   boundary only; it reports nothing when none is violated. *)
C9_FirstViolatedBoundaryReported ==
    lastOp.op = "validate_clock_times" =>
        LET v1 == ~Before(probe.clock_in, probe.rest_in)
            v2 == ~Before(probe.rest_in, probe.rest_out)
            v3 == ~Before(probe.rest_out, probe.clock_out)
        IN  lastOp.error =
                IF v1 THEN ErrClockInRestIn
                ELSE IF v2 THEN ErrRestInRestOut
                ELSE IF v3 THEN ErrRestOutClockOut
                ELSE ""

\* All three boundaries are violated and the first one was reported.
C9_Witness ==
    /\ lastOp.op = "validate_clock_times"
    /\ lastOp.error = ErrClockInRestIn
    /\ ~Before(probe.rest_in, probe.rest_out)
    /\ ~Before(probe.rest_out, probe.clock_out)

(* C10 -- working hours are (secondsOf(clock_out) - secondsOf(clock_in))
   - (secondsOf(rest_out) - secondsOf(rest_in)) seconds divided by 3600 and
   rounded to two decimals, rest hours are (secondsOf(rest_out) -
   secondsOf(rest_in)) / 3600 rounded likewise; 09:00, 12:00, 13:00, 18:00
   give 8.0 and 1.0.  Hours are counted in hundredths: r is seconds / 3600
   rounded to two decimals when 36 * r is within 18 of seconds. *)
IsRounded(r, seconds) == 36 * r - seconds \in -18..18

C10_HoursFormulas ==
    lastOp.op = "calculate_hours" =>
        LET rest == SecondsOf(probe.rest_out) - SecondsOf(probe.rest_in)
            work == SecondsOf(probe.clock_out) - SecondsOf(probe.clock_in)
        IN  /\ IsRounded(lastOp.working_hours, work - rest)
            /\ IsRounded(lastOp.rest_hours, rest)
            /\ probe = Quad(T0900, T1800, T1200, T1300)
               => (lastOp.working_hours = 800 /\ lastOp.rest_hours = 100)

\* The hours of a day with a rest that does not divide evenly: 09:00 to 18:00
\* with a rest from 12:00:30 to 12:45.
C10_Witness ==
    /\ lastOp.op = "calculate_hours"
    /\ probe = Quad(T0900, T1800, T120030, T1245)
    /\ lastOp.rest_hours = 74
    /\ lastOp.working_hours = 826

----------------------------------------------------------------------------
(* One Attendance entity in a caller's hands: loaded from its row, taken
   through update / deactivate / activate, and saved back *)

MaxEntitySteps == 3

\* The record as create_attendance stored it, and its later life: deleted or
\* not, with or without remarks.
StoredRecords ==
    { [id |-> 1, work_date |-> "2024-04-01",
       clock_in |-> q.clock_in, clock_out |-> q.clock_out,
       rest_in |-> q.rest_in, rest_out |-> q.rest_out,
       user_id |-> "u1", work_place |-> None,
       transportation_expenses |-> None, remarks |-> rm,
       delete_flag |-> df, created_at |-> 1, created_by |-> "alice",
       updated_at |-> 1, updated_by |-> "alice"] :
        q \in {Quad(T0900, T1800, T1200, T1300), Quad(T0900, T1800, T120030, T1245)},
        rm \in {None, Some("late")},
        df \in BOOLEAN }

UpdateArgs ==
    { NoArgs,
      [NoArgs EXCEPT !.updated_by = "bob"],
      [NoArgs EXCEPT !.rest_in = Some(T120030), !.updated_by = "bob"],
      [NoArgs EXCEPT !.work_date = Some("2024-04-02"), !.remarks = Some("moved")] }

\* datetime.now() moves on with every call.
Tick ==
    /\ now <= MaxEntitySteps + 1
    /\ now' = now + 1
    /\ UNCHANGED <<users, user_roles, roles, requests>>

EntityUpdate ==
    \E args \in UpdateArgs :
        /\ Tick
        /\ probe' = Attendance_update(probe, args, now)
        /\ lastOp' = [op |-> "update", args |-> args, before |-> probe,
                      after |-> probe', t |-> now]
        /\ UNCHANGED attendances

EntityDeactivate ==
    /\ Tick
    /\ probe' = Attendance_deactivate(probe, now)
    /\ lastOp' = [op |-> "deactivate", before |-> probe, after |-> probe', t |-> now]
    /\ UNCHANGED attendances

EntityActivate ==
    /\ Tick
    /\ probe' = Attendance_activate(probe, now)
    /\ lastOp' = [op |-> "activate", before |-> probe, after |-> probe', t |-> now]
    /\ UNCHANGED attendances

EntitySave ==
    LET saved == save(attendances, probe, now)
    IN  /\ Tick
        /\ attendances' = saved.db
        /\ probe' = saved.entity
        /\ lastOp' = [op |-> "save", before |-> probe, after |-> probe', t |-> now]

EntityInit ==
    /\ attendances \in { <<x>> : x \in StoredRecords }
    /\ probe = attendances[1]
    /\ now = 2
    /\ lastOp = NoOp
    /\ users = <<>>
    /\ user_roles = <<>>
    /\ roles = {}
    /\ requests = <<>>

EntityNext ==
    \/ EntityUpdate
    \/ EntityDeactivate
    \/ EntityActivate
    \/ EntitySave

EntitySpec == EntityInit /\ [][EntityNext]_vars

(* C11 -- deactivate and activate are idempotent: a second deactivate right
   after a deactivate, and a second activate right after an activate, returns
   the record as it is, updated_at included. *)
C11_DeactivateActivateIdempotent ==
    [][ ( \/ lastOp.op = "deactivate" /\ lastOp'.op = "deactivate"
          \/ lastOp.op = "activate" /\ lastOp'.op = "activate" )
        => /\ lastOp'.before = lastOp.after
           /\ lastOp'.after = lastOp.after ]_vars

\* An active record was deactivated at time 2 and deactivated again at time 3.
C11_Witness ==
    /\ lastOp.op = "deactivate"
    /\ lastOp.t = 3
    /\ ~attendances[1].delete_flag
    /\ lastOp.before.delete_flag
    /\ lastOp.before.updated_at = 2
    /\ probe = lastOp.before

(* C12 -- for a record x with delete_flag = false, activate(deactivate(x)) has
   delete_flag = false and every other field equal to x's, except
   updated_at. *)
ExceptUpdatedAt(x) == [x EXCEPT !.updated_at = 0]

C12_ActivateUndoesDeactivate ==
    [][ ( /\ lastOp.op = "deactivate"
          /\ ~lastOp.before.delete_flag
          /\ lastOp'.op = "activate" )
        => /\ ~probe'.delete_flag
           /\ ExceptUpdatedAt(probe') = ExceptUpdatedAt(lastOp.before) ]_vars

\* A record with remarks was deactivated at time 2 and activated at time 3.
C12_Witness ==
    /\ lastOp.op = "activate"
    /\ lastOp.t = 3
    /\ lastOp.before.delete_flag
    /\ lastOp.before.updated_at = 2
    /\ ~attendances[1].delete_flag
    /\ attendances[1].remarks # None
    /\ ~probe.delete_flag
    /\ probe.updated_at = 3

(* C13 -- through update, deactivate and activate and through the saves of the
   results, a record's id, user_id, created_at and created_by stay what they
   were at creation, in the entity and in the stored row. *)
FrameOf(x) == <<x.id, x.user_id, x.created_at, x.created_by>>

C13_CreationFieldsFixed ==
    [][ /\ FrameOf(probe') = FrameOf(probe)
        /\ Len(attendances') = Len(attendances)
        /\ \A i \in 1..Len(attendances) :
              FrameOf(attendances'[i]) = FrameOf(attendances[i]) ]_vars

\* A deleted record, last updated by "bob", saved over its row.
C13_Witness ==
    /\ lastOp.op = "save"
    /\ attendances[1].delete_flag
    /\ attendances[1].updated_by = "bob"
    /\ attendances[1].updated_at > attendances[1].created_at
    /\ FrameOf(attendances[1]) = <<1, "u1", 1, "alice">>

----------------------------------------------------------------------------
(* C14 -- a create or update request carrying a negative
   transportation_expenses is rejected whether or not its times are validly
   ordered, and stores nothing; no stored record has
   transportation_expenses < 0. *)
IsNegative(x) == x # None /\ x[1] < 0

CarriesData(op) ==
    op \in {"create_attendance", "update_attendance",
            "AttendanceCreateDTO", "AttendanceUpdateDTO"}

C14_NegativeExpensesRejected ==
    /\ [](\A i \in 1..Len(attendances) :
            ~IsNegative(attendances[i].transportation_expenses))
    /\ [][ ( /\ CarriesData(lastOp'.op)
             /\ IsNegative(lastOp'.data.transportation_expenses) )
           => /\ lastOp'.outcome = "raised"
              /\ lastOp'.error \notin TimeOrderErrors
              /\ attendances' = attendances ]_vars

\* A create with validly ordered times and transportation_expenses = -1 was
\* rejected, beside a stored record that carries an amount.
C14_Witness ==
    /\ lastOp.op = "AttendanceCreateDTO"
    /\ lastOp.outcome = "raised"
    /\ StrictlyOrdered(lastOp.data)
    /\ lastOp.data.transportation_expenses = Some(-1)
    /\ ~HasActiveRecord(attendances, lastOp.data.user_id, lastOp.data.work_date)
    /\ \E i \in 1..Len(attendances) :
          attendances[i].transportation_expenses = Some(500)

(* C15 -- deleting is logical only: delete_attendance and the repository's
   delete set delete_flag on the stored row; no operation removes a row, so
   the number of stored rows never decreases. *)
C15_DeleteKeepsTheRow ==
    [][ /\ Len(attendances') >= Len(attendances)
        /\ \A i \in 1..Len(attendances) : attendances'[i].id = attendances[i].id
        /\ ( /\ lastOp'.op \in {"delete_attendance", "delete"}
             /\ lastOp'.id \in 1..Len(attendances) )
           => /\ Len(attendances') = Len(attendances)
              /\ attendances'[lastOp'.id].delete_flag ]_vars

\* Two stored rows; the repository's delete has just marked one of them, the
\* other is active, and both are still there.
C15_Witness ==
    /\ lastOp.op = "delete"
    /\ Len(attendances) = 2
    /\ lastOp.id \in 1..2
    /\ attendances[lastOp.id].delete_flag
    /\ attendances[lastOp.id].updated_at > attendances[lastOp.id].created_at
    /\ \E i \in 1..2 : ~attendances[i].delete_flag

----------------------------------------------------------------------------
(* The transitions and has_manager_role over whatever the tables hold: role
   catalogs with a row missing or marked deleted, the guest role, and a user
   with any short list of assignments *)

GUEST == "guest"

FullCatalog ==
    MigratedRoles \cup {[id |-> "role-4", role_name |-> GUEST, delete_flag |-> FALSE]}

RoleRowOf(rl, name) == CHOOSE r \in rl : r.role_name = name

Without(rl, name) == rl \ {RoleRowOf(rl, name)}

MarkedDeleted(rl, name) ==
    Without(rl, name) \cup {[RoleRowOf(rl, name) EXCEPT !.delete_flag = TRUE]}

Catalogs ==
    { FullCatalog,
      Without(FullCatalog, MANAGER_ROLE),
      Without(FullCatalog, ADMIN_ROLE),
      Without(FullCatalog, USER_ROLE),
      MarkedDeleted(FullCatalog, MANAGER_ROLE),
      MarkedDeleted(FullCatalog, ADMIN_ROLE) }

TheUser ==
    [id |-> 1, email |-> "a@example.com", username |-> "alice",
     manager_id |-> None,
     delete_flag |-> FALSE, created_at |-> 1, created_by |-> "alice",
     updated_at |-> 1, updated_by |-> "alice", first_name |-> None,
     info_delete_flag |-> FALSE, info_updated_at |-> 1,
     info_updated_by |-> "alice"]

\* The lists of at most two assignments of the user to rows of the catalog
\* (user_roles.role_id is a foreign key), each retired or not.
AssignmentLists(rl) ==
    LET choices == { <<r.id, df>> : r \in rl, df \in BOOLEAN }
        lists == UNION { [1..n -> choices] : n \in 0..2 }
    IN  { [i \in 1..Len(l) |->
             [id |-> i, user_id |-> 1, role_id |-> l[i][1],
              delete_flag |-> l[i][2], created_at |-> 1, created_by |-> "alice",
              updated_at |-> 1, updated_by |-> "alice"]] : l \in lists }

HasManagerRole ==
    \E user_id \in RequestUserIds :
        /\ lastOp' = [op |-> "has_manager_role", id |-> user_id,
                      outcome |-> "returned", error |-> "",
                      value |-> has_manager_role(UserDb, user_id)]
        /\ UNCHANGED <<attendances, now, probe, users, user_roles, roles, requests>>

CatalogInit ==
    /\ attendances = <<>>
    /\ now = 2
    /\ lastOp = NoOp
    /\ probe = NoProbe
    /\ users = <<TheUser>>
    /\ roles \in Catalogs
    /\ user_roles \in AssignmentLists(roles)
    /\ requests = <<>>

CatalogNext ==
    \/ PromoteToManager
    \/ PromoteToAdmin
    \/ DemoteFromAdminToManager
    \/ DemoteFromManagerToUser
    \/ HasManagerRole

CatalogSpec == CatalogInit /\ [][CatalogNext]_vars

----------------------------------------------------------------------------
(* C16 -- has_manager_role(user) is true exactly when the user has an active
   assignment of a role whose rank is at least manager's (manager_role or
   admin_role); it is false for a user holding only user_role, only a role
   outside the hierarchy, or no active assignment. *)
ManagerOrAbove(name) == name \in {MANAGER_ROLE, ADMIN_ROLE}

ActiveAssignmentsOf(ur, u) ==
    { i \in 1..Len(ur) : ur[i].user_id = u /\ ~ur[i].delete_flag }

RoleRowById(rl, role_id) == CHOOSE r \in rl : r.id = role_id

C16_HasManagerRoleByRank ==
    lastOp.op = "has_manager_role" =>
        ( lastOp.value = TRUE
          <=> \E i \in ActiveAssignmentsOf(user_roles, lastOp.id) :
                 ManagerOrAbove(RoleRowById(roles, user_roles[i].role_id).role_name) )

(* C16, as the code has it -- has_manager_role(user) is true exactly when the
   user has an active assignment of a role row that is itself not marked
   deleted and whose rank is at least manager's. *)
C16_HasManagerRoleByRankOfLiveRole ==
    lastOp.op = "has_manager_role" =>
        ( lastOp.value = TRUE
          <=> \E i \in ActiveAssignmentsOf(user_roles, lastOp.id) :
                 LET r == RoleRowById(roles, user_roles[i].role_id)
                 IN  ~r.delete_flag /\ ManagerOrAbove(r.role_name) )

\* The answer is false for a user whose active assignments are the guest role
\* and a manager role whose catalog row is marked deleted.
C16_Witness ==
    /\ lastOp.op = "has_manager_role"
    /\ lastOp.value = FALSE
    /\ \E i, j \in ActiveAssignmentsOf(user_roles, lastOp.id) :
          /\ RoleRowById(roles, user_roles[i].role_id).role_name = GUEST
          /\ RoleRowById(roles, user_roles[j].role_id).role_name = MANAGER_ROLE
          /\ RoleRowById(roles, user_roles[j].role_id).delete_flag

(* C17 -- when a transition's source role is held by the active user but the
   target role is missing from the catalog, the transition raises the
   role-not-found error, not None, and leaves every assignment as it was: the
   source assignment is not retired. *)
InCatalog(rl, name) == \E r \in rl : r.role_name = name /\ ~r.delete_flag

C17_MissingTargetRoleRaises ==
    [][ ( /\ lastOp'.op \in TransitionOps
          /\ IsActiveUser(users, lastOp'.id)
          /\ ActiveAssignments(user_roles, roles, lastOp'.id, SourceOf(lastOp'.op)) # {}
          /\ ~InCatalog(roles, TargetOf(lastOp'.op)) )
        => /\ lastOp'.outcome = "raised"
           /\ lastOp'.error = ErrRoleNotFound(TargetOf(lastOp'.op))
           /\ user_roles' = user_roles
           /\ users' = users ]_vars

\* promote_to_manager raised for a user who holds user_role, in a catalog
\* without an active manager_role; the user_role assignment is still active.
C17_Witness ==
    /\ lastOp.op = "promote_to_manager"
    /\ lastOp.outcome = "raised"
    /\ lastOp.error = ErrRoleNotFound(MANAGER_ROLE)
    /\ ~InCatalog(roles, MANAGER_ROLE)
    /\ ActiveAssignments(user_roles, roles, lastOp.id, USER_ROLE) # {}

(* C18 -- transitions preserve the assignment history: a successful one marks
   exactly one existing assignment retired and inserts exactly one row; no
   assignment row is removed or has its user or role changed in place, and a
   retired assignment never becomes active again. *)
C18_AssignmentHistoryKept ==
    [][ LET n == Len(user_roles)
            changed == { i \in 1..n : user_roles'[i] # user_roles[i] }
        IN  /\ Len(user_roles') >= n
            /\ \A i \in 1..n :
                  /\ user_roles'[i].id = user_roles[i].id
                  /\ user_roles'[i].user_id = user_roles[i].user_id
                  /\ user_roles'[i].role_id = user_roles[i].role_id
                  /\ user_roles[i].delete_flag => user_roles'[i].delete_flag
            /\ (lastOp'.op \in TransitionOps /\ lastOp'.value # None)
               => /\ Len(user_roles') = n + 1
                  /\ Cardinality(changed) = 1
                  /\ \A i \in changed :
                        ~user_roles[i].delete_flag /\ user_roles'[i].delete_flag
                  /\ ~user_roles'[n + 1].delete_flag ]_vars

\* A user went user, manager, admin: three rows, the first two retired at
\* different times, the last one active.
C18_Witness ==
    /\ lastOp.op = "promote_to_admin"
    /\ lastOp.value # None
    /\ LET mine == SelectSeq(user_roles, LAMBDA a : a.user_id = lastOp.id)
       IN  /\ Len(mine) = 3
           /\ mine[1].delete_flag /\ mine[2].delete_flag /\ ~mine[3].delete_flag
           /\ mine[1].updated_at < mine[2].updated_at
           /\ RoleRowById(roles, mine[1].role_id).role_name = USER_ROLE

----------------------------------------------------------------------------
(* Two POST /attendances requests served at the same time.  The endpoint is a
   plain def, so each request runs on its own worker thread with its own
   session (scoped_session); create_attendance reads the table for a duplicate
   and, in a later statement, inserts and commits.  Nothing in between holds a
   lock, and idx_user_date is an index, not a unique constraint. *)

Threads == {1, 2}

ConcurrentCreateRequests ==
    { [user_id |-> "u1", work_date |-> d,
       clock_in |-> q.clock_in, clock_out |-> q.clock_out,
       rest_in |-> q.rest_in, rest_out |-> q.rest_out,
       work_place |-> None, transportation_expenses |-> None, remarks |-> None,
       created_by |-> by, updated_by |-> by] :
         d \in WorkDates, by \in {"alice", "bob"},
         q \in {Quad(T0900, T1800, T1200, T1300), Quad(T0900, T1800, T1300, T1200)} }

Finished(req, outcome, error) ==
    [req EXCEPT !.pc = "done", !.outcome = outcome, !.error = error]

\* Lines 88-108: parse the user id, look for an active record of the user and
\* date, validate the times.
CreateCheck(p) ==
    /\ requests[p].pc = "check"
    /\ LET data == requests[p].data
           err == validate_clock_times(data.clock_in, data.clock_out,
                                       data.rest_in, data.rest_out)
       IN  requests' =
             [requests EXCEPT ![p] =
                IF ~ValidUserId(data.user_id)
                THEN Finished(@, "raised", ErrInvalidUserId)
                ELSE IF find_by_user_id_and_date(attendances, data.user_id,
                                                 data.work_date) # {}
                THEN Finished(@, "raised", ErrAlreadyExists)
                ELSE IF err # "" THEN Finished(@, "raised", err)
                ELSE [@ EXCEPT !.pc = "save"]]
    /\ UNCHANGED <<attendances, now, lastOp, probe, users, user_roles, roles>>

\* Lines 110-129: build the entity, save it (insert and commit), build the
\* response.
CreateSave(p) ==
    /\ requests[p].pc = "save"
    /\ LET data == requests[p].data
           saved == save(attendances, Attendance(generate(attendances), data, now), now)
           r == ReturnResponse(saved.db, saved.entity)
       IN  /\ attendances' = saved.db
           /\ requests' = [requests EXCEPT ![p] =
                              [Finished(@, r.outcome, r.error) EXCEPT !.stored = TRUE]]
    /\ now' = now + 1
    /\ UNCHANGED <<lastOp, probe, users, user_roles, roles>>

ConcurrentCreateInit ==
    /\ attendances = <<>>
    /\ now = 1
    /\ lastOp = NoOp
    /\ probe = NoProbe
    /\ users = <<>>
    /\ user_roles = <<>>
    /\ roles = {}
    /\ requests \in [Threads ->
                       { [pc |-> "check", data |-> d, outcome |-> "", error |-> "",
                          stored |-> FALSE] : d \in ConcurrentCreateRequests }]

ConcurrentCreateNext ==
    \E p \in Threads :
        \/ CreateCheck(p)
        \/ CreateSave(p)

ConcurrentCreateSpec == ConcurrentCreateInit /\ [][ConcurrentCreateNext]_vars

(* C19 -- the duplicate check and the insert of create_attendance are atomic:
   however two concurrent requests for the same (user_id, work_date)
   interleave, at most one of them stores a record and at most one active
   record of the pair exists afterwards. *)
C19_ConcurrentCreateAtomic ==
    (\A p \in Threads : requests[p].pc = "done")
    => /\ UniqueActive(attendances)
       /\ ( /\ requests[1].data.user_id = requests[2].data.user_id
            /\ requests[1].data.work_date = requests[2].data.work_date )
          => Cardinality({ p \in Threads : requests[p].stored }) <= 1

----------------------------------------------------------------------------
(* Two role transitions on one user served at the same time, each in its own
   session.  A transition reads the user, the held assignment and the target
   role, and only at commit writes: the held row retired, the new row, the
   user's updated_at.  A second session that has read before the first one
   commits still holds the assignment it read; its UPDATE of the same row waits
   for the first commit and then goes through. *)

Transitions ==
    { [op |-> "promote_to_manager", source |-> USER_ROLE, target |-> MANAGER_ROLE],
      [op |-> "promote_to_admin", source |-> MANAGER_ROLE, target |-> ADMIN_ROLE],
      [op |-> "demote_from_admin_to_manager", source |-> ADMIN_ROLE,
       target |-> MANAGER_ROLE],
      [op |-> "demote_from_manager_to_user", source |-> MANAGER_ROLE,
       target |-> USER_ROLE] }

\* The three queries, up to the "not found" answers.
TransitionRead(p) ==
    /\ requests[p].pc = "read"
    /\ LET req == requests[p]
           held == HeldAssignments(UserDb, req.id, req.source)
           cat == CatalogRole(UserDb, req.target)
       IN  IF ~ActiveUser(UserDb, req.id) \/ held = {}
           THEN requests' = [requests EXCEPT ![p] = Finished(@, "returned", "")]
           ELSE IF cat = {}
           THEN requests' = [requests EXCEPT ![p] =
                                Finished(@, "raised", ErrRoleNotFound(req.target))]
           ELSE \E pick \in held :
                   requests' = [requests EXCEPT ![p] =
                                   [@ EXCEPT !.pc = "write", !.pick = pick,
                                             !.role_id = (CHOOSE r \in cat : TRUE).id,
                                             !.by = users[req.id].updated_by]]
    /\ UNCHANGED <<attendances, now, lastOp, probe, users, user_roles, roles>>

\* The writes and the commit.
TransitionWrite(p) ==
    /\ requests[p].pc = "write"
    /\ LET req == requests[p]
       IN  /\ user_roles' =
                Append([user_roles EXCEPT ![req.pick].delete_flag = TRUE,
                                          ![req.pick].updated_at = now],
                       NewAssignment(UserDb, req.id, req.role_id, req.by, now))
           /\ users' = [users EXCEPT ![req.id].updated_at = now]
           /\ requests' = [requests EXCEPT ![p] =
                              [Finished(@, "returned", "") EXCEPT !.succeeded = TRUE]]
    /\ now' = now + 1
    /\ UNCHANGED <<attendances, lastOp, probe, roles>>

ConcurrentRoleInit ==
    /\ attendances = <<>>
    /\ now = 2
    /\ lastOp = NoOp
    /\ probe = NoProbe
    /\ users = <<TheUser>>
    /\ roles = MigratedRoles
    /\ user_roles \in
          { <<[id |-> 1, user_id |-> 1, role_id |-> r.id, delete_flag |-> FALSE,
               created_at |-> 1, created_by |-> "alice",
               updated_at |-> 1, updated_by |-> "alice"]>> : r \in MigratedRoles }
    /\ requests \in [Threads ->
                       { [op |-> tr.op, source |-> tr.source, target |-> tr.target,
                          id |-> 1, pc |-> "read", pick |-> 0, role_id |-> "",
                          by |-> "", outcome |-> "", error |-> "",
                          succeeded |-> FALSE] : tr \in Transitions }]

ConcurrentRoleNext ==
    \E p \in Threads :
        \/ TransitionRead(p)
        \/ TransitionWrite(p)

ConcurrentRoleSpec == ConcurrentRoleInit /\ [][ConcurrentRoleNext]_vars

(* C20 -- retiring the old assignment and creating the new one are atomic:
   however two concurrent transitions on the same user interleave, the user
   ends with exactly one active hierarchical role assignment and at most one
   of the two requests succeeds. *)
C20_ConcurrentTransitionAtomic ==
    (\A p \in Threads : requests[p].pc = "done")
    => /\ Cardinality(HierarchicalAssignments(user_roles, roles, 1)) = 1
       /\ Cardinality({ p \in Threads : requests[p].succeeded }) <= 1

----------------------------------------------------------------------------
(* Users created, updated through the PUT endpoint, deleted, read and promoted,
   one call at a time, over the migrated catalog and over catalogs whose user
   role is absent or marked deleted. *)

\* The update requests: each field alone and the pairs the checks turn on.
\* updated_by is a name, as the tests pass it, or a user's id.
NoUserPatch ==
    [username |-> None, delete_flag |-> None, manager_id |-> None,
     first_name |-> None, updated_by |-> "alice"]

UpdateUserRequests ==
    { [NoUserPatch EXCEPT !.username = Some("carol")],
      [NoUserPatch EXCEPT !.first_name = Some("Al"), !.updated_by = ""],
      [NoUserPatch EXCEPT !.delete_flag = Some(TRUE)],
      [NoUserPatch EXCEPT !.delete_flag = Some(FALSE), !.username = Some("")] }
    \cup { [NoUserPatch EXCEPT !.manager_id = Some(x[1]), !.updated_by = x[2]] :
             x \in { <<"id-1", "alice">>, <<"id-1", "id-1">>, <<"id-1", "id-2">>,
                     <<"id-1", "">>, <<"id-2", "alice">>, <<"id-3", "alice">>,
                     <<"nobody", "alice">>, <<"", "id-2">> } }

UpdateUser ==
    \E user_id \in RequestUserIds :
        \E data \in UpdateUserRequests :
            LET r == endpoint_update_user(UserDb, user_id, data, now)
            IN  /\ UserCommit(r)
                /\ lastOp' = [op |-> "update_user", id |-> user_id, data |-> data,
                              outcome |-> r.outcome, error |-> r.error,
                              value |-> r.value]

GetUser ==
    \E user_id \in RequestUserIds :
        LET r == get_user(UserDb, user_id)
        IN  /\ UserCommit(r)
            /\ lastOp' = [op |-> "get_user", id |-> user_id,
                          outcome |-> r.outcome, error |-> r.error, value |-> r.value]

UserCatalogs ==
    { MigratedRoles, Without(MigratedRoles, USER_ROLE),
      MarkedDeleted(MigratedRoles, USER_ROLE) }

UserInit ==
    /\ attendances = <<>>
    /\ now = 2
    /\ lastOp = NoOp
    /\ probe = NoProbe
    /\ users = <<>>
    /\ user_roles = <<>>
    /\ roles \in UserCatalogs
    /\ requests = <<>>

UserNext ==
    \/ CreateUser
    \/ UpdateUser
    \/ DeleteUser
    \/ GetUser

UserSpec == UserInit /\ [][UserNext]_vars

----------------------------------------------------------------------------
(* C21 -- create_user raises ValueError ("User with email ... already exists")
   and creates nothing when an active user with the same email exists;
   consequently, after any sequence of create_user, update_user and
   delete_user calls executed one at a time, no two active users share an
   email. *)

ActiveWithEmail(us, email) ==
    { i \in 1..Len(us) : us[i].email = email /\ ~us[i].delete_flag }

C21_UniqueActiveEmail ==
    /\ [](\A i, j \in 1..Len(users) :
            (i # j /\ ~users[i].delete_flag /\ ~users[j].delete_flag)
            => users[i].email # users[j].email)
    /\ [][ (lastOp'.op = "create_user"
            /\ ActiveWithEmail(users, lastOp'.data.email) # {})
           => /\ lastOp'.outcome = "raised"
              /\ lastOp'.error = ErrEmailExists
              /\ users' = users
              /\ user_roles' = user_roles ]_vars

\* A create refused for its email, while a deleted user with that email and an
\* active one are both stored.
C21_Witness ==
    /\ lastOp.op = "create_user"
    /\ lastOp.outcome = "raised"
    /\ lastOp.error = ErrEmailExists
    /\ \E i, j \in 1..Len(users) :
          /\ users[i].email = lastOp.data.email
          /\ users[j].email = lastOp.data.email
          /\ users[i].delete_flag
          /\ ~users[j].delete_flag

----------------------------------------------------------------------------
(* C22 -- every user created successfully has exactly one role assignment at
   creation, and it is the default user role; when the default user role is
   missing from the catalog, creation fails with an error and neither the user
   nor any assignment is persisted. *)

AssignmentsOf(ur, u) == { i \in 1..Len(ur) : ur[i].user_id = u }

C22_CreatedWithDefaultRole ==
    [][ lastOp'.op = "create_user"
        => /\ lastOp'.outcome = "returned"
              => /\ Len(users') = Len(users) + 1
                 /\ LET new == AssignmentsOf(user_roles', Len(users'))
                    IN  /\ Cardinality(new) = 1
                        /\ \A i \in new :
                              /\ ~user_roles'[i].delete_flag
                              /\ RoleNameOf(roles, user_roles'[i].role_id) = USER_ROLE
           /\ ~InCatalog(roles, USER_ROLE)
              => /\ lastOp'.outcome = "raised"
                 /\ lastOp'.error = ErrRoleNotFound(USER_ROLE)
                 /\ users' = users
                 /\ user_roles' = user_roles ]_vars

\* A create refused because the catalog has no active user role; nothing stored.
C22_Witness ==
    /\ lastOp.op = "create_user"
    /\ lastOp.outcome = "raised"
    /\ lastOp.error = ErrRoleNotFound(USER_ROLE)
    /\ ~InCatalog(roles, USER_ROLE)
    /\ users = <<>>
    /\ user_roles = <<>>

----------------------------------------------------------------------------
(* C23 -- delete_user returns True exactly when an active user with the given
   id exists and then marks that user's delete_flag true without removing it;
   for an id with no active user it returns False and changes nothing; after a
   successful delete, get_user for that id reports not found and a second
   delete_user returns False. *)

IsDeletedUser(us, u) == u \in 1..Len(us) /\ us[u].delete_flag

C23_DeleteUserMarksOnce ==
    /\ [][ lastOp'.op = "delete_user"
           => LET id == lastOp'.id
              IN  /\ lastOp'.outcome = "returned"
                  /\ lastOp'.value = IsActiveUser(users, id)
                  /\ user_roles' = user_roles
                  /\ IsActiveUser(users, id)
                     => /\ Len(users') = Len(users)
                        /\ users'[id].delete_flag
                        /\ users'[id].id = users[id].id
                        /\ users'[id].email = users[id].email
                        /\ \A j \in 1..Len(users) : j # id => users'[j] = users[j]
                  /\ ~IsActiveUser(users, id) => users' = users ]_vars
    /\ [][ \A id \in 1..Len(users) :
              users[id].delete_flag
              => /\ users'[id] = users[id]
                 /\ (lastOp'.op = "get_user" /\ lastOp'.id = id)
                    => lastOp'.value = None
                 /\ (lastOp'.op = "delete_user" /\ lastOp'.id = id)
                    => lastOp'.value = FALSE ]_vars

\* The second delete_user of a user: False, the row still stored and deleted.
C23_Witness ==
    /\ lastOp.op = "delete_user"
    /\ lastOp.value = FALSE
    /\ IsDeletedUser(users, lastOp.id)

----------------------------------------------------------------------------
(* One User entity in a caller's hands: loaded from its row and taken through
   activate / deactivate / update_username *)

\* The user as create_user stored it, and its later life: deleted or not,
\* with or without a manager.
StoredUsers ==
    { [TheUser EXCEPT !.delete_flag = df, !.info_delete_flag = df,
                      !.manager_id = m] :
        df \in BOOLEAN, m \in {None, Some("id-2")} }

Usernames == {"alice", "carol"}

UserTick ==
    /\ now <= MaxEntitySteps + 1
    /\ now' = now + 1
    /\ UNCHANGED <<attendances, users, user_roles, roles, requests>>

UserActivate ==
    /\ UserTick
    /\ probe' = User_activate(probe, now)
    /\ lastOp' = [op |-> "activate", before |-> probe, after |-> probe', t |-> now]

UserDeactivate ==
    /\ UserTick
    /\ probe' = User_deactivate(probe, now)
    /\ lastOp' = [op |-> "deactivate", before |-> probe, after |-> probe', t |-> now]

UserUpdateUsername ==
    \E username \in Usernames :
        /\ UserTick
        /\ probe' = User_update_username(probe, username, now)
        /\ lastOp' = [op |-> "update_username", username |-> username,
                      before |-> probe, after |-> probe', t |-> now]

UserEntityInit ==
    /\ attendances = <<>>
    /\ users \in { <<u>> : u \in StoredUsers }
    /\ probe = to_entity(users[1])
    /\ now = 2
    /\ lastOp = NoOp
    /\ user_roles = <<>>
    /\ roles = MigratedRoles
    /\ requests = <<>>

UserEntityNext ==
    \/ UserActivate
    \/ UserDeactivate
    \/ UserUpdateUsername

UserEntitySpec == UserEntityInit /\ [][UserEntityNext]_vars

(* C24 -- User.deactivate on an active user, User.activate on a deleted user,
   and User.update_username on any user each return a user with the same id
   and email, the requested delete_flag or username, and an updated_at
   strictly later than the original's updated_at. *)
C24_UserEntityTransitions ==
    [][ LET before == lastOp'.before
            after == lastOp'.after
            kept == /\ after.id = before.id
                    /\ after.email = before.email
                    /\ after.updated_at > before.updated_at
        IN  /\ (lastOp'.op = "deactivate" /\ ~before.delete_flag)
               => (kept /\ after.delete_flag /\ after.username = before.username)
            /\ (lastOp'.op = "activate" /\ before.delete_flag)
               => (kept /\ ~after.delete_flag /\ after.username = before.username)
            /\ lastOp'.op = "update_username"
               => (kept /\ after.username = lastOp'.username
                        /\ after.delete_flag = before.delete_flag) ]_vars

\* A deleted user, activated and then renamed: each step later than the last.
C24_Witness ==
    /\ lastOp.op = "update_username"
    /\ users[1].delete_flag
    /\ ~lastOp.before.delete_flag
    /\ lastOp.before.updated_at = 2
    /\ lastOp.after.username = "carol"
    /\ lastOp.after.updated_at = 3

----------------------------------------------------------------------------
(* Two users, created one after the other, then updated through the PUT
   endpoint, promoted, demoted and deleted: who may be named as a manager,
   and who may name one. *)

TwoUsers ==
    LET empty == [users |-> <<>>, user_roles |-> <<>>, roles |-> MigratedRoles]
        alice == CHOOSE d \in CreateUserRequests : d.username = "alice"
        bob == CHOOSE d \in CreateUserRequests : d.username = "bob"
    IN  create_user(create_user(empty, alice, 1).db, bob, 2).db

ManagerInit ==
    /\ attendances = <<>>
    /\ now = 4
    /\ lastOp = NoOp
    /\ probe = NoProbe
    /\ users = TwoUsers.users
    /\ user_roles = TwoUsers.user_roles
    /\ roles = TwoUsers.roles
    /\ requests = <<>>

ManagerNext ==
    \/ UpdateUser
    \/ DeleteUser
    \/ PromoteToManager
    \/ DemoteFromManagerToUser

ManagerSpec == ManagerInit /\ [][ManagerNext]_vars


\* The updater holds manager-or-higher privileges: updated_by is the id of a
\* user with an active assignment of a live role of manager's rank or above.
HoldsManagerPrivileges(ur, rl, name) ==
    \E u \in UserId(name) :
        \E i \in ActiveAssignmentsOf(ur, u) :
            \E r \in rl : /\ r.id = ur[i].role_id
                          /\ ~r.delete_flag
                          /\ ManagerOrAbove(r.role_name)

WellFormedUpdater(name) == name # "" /\ UserId(name) # {}

Applied(op) == op.outcome = "returned" /\ op.value # None

(* C25 -- whenever an update request through the PUT user endpoint specifies a
   manager_id, the update is applied only if the updater named in updated_by
   holds manager-or-higher privileges; otherwise the request is refused with
   403 and the user is left unchanged. *)
C25_ManagerIdNeedsPrivilegedUpdater ==
    [][ (lastOp'.op = "update_user" /\ lastOp'.data.manager_id # None)
        => /\ Applied(lastOp')
              => HoldsManagerPrivileges(user_roles, roles, lastOp'.data.updated_by)
           /\ ~HoldsManagerPrivileges(user_roles, roles, lastOp'.data.updated_by)
              => /\ lastOp'.outcome = "raised"
                 /\ lastOp'.error = ErrForbidden
                 /\ users' = users ]_vars

(* C25, amended -- whenever an update request through the PUT user endpoint
   specifies a manager_id and its updated_by is a non-empty, well-formed user
   id, the update is applied only if that updater holds manager-or-higher
   privileges; otherwise the request is refused with 403 and the user is left
   unchanged.  A request whose updated_by is empty or not a well-formed user
   id is not refused with 403. *)
C25_ManagerIdNeedsPrivilegedUpdaterIfWellFormed ==
    [][ lastOp'.op = "update_user"
        => LET data == lastOp'.data
               checked == data.manager_id # None /\ WellFormedUpdater(data.updated_by)
               privileged == HoldsManagerPrivileges(user_roles, roles, data.updated_by)
           IN  /\ (checked /\ Applied(lastOp')) => privileged
               /\ (checked /\ ~privileged)
                  => /\ lastOp'.outcome = "raised"
                     /\ lastOp'.error = ErrForbidden
                     /\ users' = users
                     /\ user_roles' = user_roles
               /\ lastOp'.error = ErrForbidden => (checked /\ ~privileged) ]_vars

\* A manager named for user 2 by an updater whose id is well formed but who is
\* no manager: refused, user 2 as before, while user 1 is a manager.
C25_Witness ==
    /\ lastOp.op = "update_user"
    /\ lastOp.id = 2
    /\ lastOp.data.manager_id = Some("id-1")
    /\ lastOp.data.updated_by = "id-2"
    /\ lastOp.error = ErrForbidden
    /\ HoldsManagerPrivileges(user_roles, roles, "id-1")
    /\ users[2].manager_id = None

(* C26 -- the repository's update accepts a change of manager_id to a
   non-null value only if that value identifies an existing non-deleted user
   who has manager-or-higher privileges at that moment; otherwise it raises
   ValueError and no field of the user or of its user-info row is changed. *)
NamesActiveManager(us, ur, rl, manager_id) ==
    /\ HoldsManagerPrivileges(ur, rl, manager_id[1])
    /\ \A u \in UserId(manager_id[1]) : IsActiveUser(us, u)

C26_ManagerIdMustNameAManager ==
    [][ (lastOp'.op = "update_user" /\ IsActiveUser(users, lastOp'.id)
         /\ lastOp'.error # ErrForbidden)
        => LET id == lastOp'.id
               data == lastOp'.data
               asked == IF Truthy(data.manager_id) THEN data.manager_id
                        ELSE users[id].manager_id
               changes == asked # users[id].manager_id /\ asked # None
               ok == NamesActiveManager(users, user_roles, roles, asked)
           IN  /\ (changes /\ ok)
                  => (Applied(lastOp') /\ users'[id].manager_id = asked)
               /\ (changes /\ ~ok)
                  => /\ lastOp'.outcome = "raised"
                     /\ lastOp'.error = ErrInvalidManagerId
                     /\ users' = users
                     /\ user_roles' = user_roles
               /\ users'[id].manager_id # users[id].manager_id
                  => (changes /\ ok /\ users'[id].manager_id = asked) ]_vars

\* User 1 was promoted and demoted again; naming it as user 2's manager is
\* refused by the repository, and user 2 is as it was created.
C26_Witness ==
    /\ lastOp.op = "update_user"
    /\ lastOp.id = 2
    /\ lastOp.data.manager_id = Some("id-1")
    /\ lastOp.error = ErrInvalidManagerId
    /\ Len(user_roles) = 4
    /\ IsActiveUser(users, 1)
    /\ ~HoldsManagerPrivileges(user_roles, roles, "id-1")
    /\ users[2] = TwoUsers.users[2]

----------------------------------------------------------------------------
(* C27 -- create_attendance is all-or-nothing: whenever the call ends in an
   error (invalid user id, duplicate record, invalid time order, or a failure
   while building the response), the set of stored attendance records is the
   same as before the call; a record is stored only when the call returns a
   response. *)
C27_CreateAllOrNothing ==
    [][ lastOp'.op = "create_attendance"
        => /\ lastOp'.outcome = "raised" => attendances' = attendances
           /\ attendances' # attendances
              => (lastOp'.outcome = "returned" /\ lastOp'.value # None) ]_vars


(* C28 -- logical deletion of an attendance record is permanent through the
   service: once a record's delete_flag is true, get_attendance and
   update_attendance return None for its id, delete_attendance returns False,
   no later service call changes any of its fields, and its delete_flag never
   becomes false again; its (user_id, work_date) becomes available for a new
   create_attendance. *)
ServiceOps ==
    {"get_attendance", "create_attendance", "update_attendance",
     "delete_attendance", "AttendanceCreateDTO", "AttendanceUpdateDTO"}

C28_DeletionIsPermanent ==
    [][ \A id \in 1..Len(attendances) :
          attendances[id].delete_flag
          => LET row == attendances[id]
                 op == lastOp'
             IN  /\ attendances'[id].delete_flag
                 /\ op.op \in ServiceOps => attendances'[id] = row
                 /\ (op.op \in {"get_attendance", "update_attendance"} /\ op.id = id)
                    => (op.outcome = "returned" /\ op.value = None)
                 /\ (op.op = "delete_attendance" /\ op.id = id)
                    => (op.outcome = "returned" /\ op.value = FALSE)
                 /\ ( /\ op.op = "create_attendance"
                      /\ op.data.user_id = row.user_id
                      /\ op.data.work_date = row.work_date
                      /\ ~HasActiveRecord(attendances, row.user_id, row.work_date)
                      /\ StrictlyOrdered(op.data) )
                    => /\ Len(attendances') = Len(attendances) + 1
                       /\ IsActiveRecord(attendances', Len(attendances'))
                       /\ attendances'[Len(attendances')].user_id = row.user_id
                       /\ attendances'[Len(attendances')].work_date = row.work_date ]_vars

\* A record was created and deleted, and a new one stored for its user and date.
C28_Witness ==
    /\ lastOp.op = "create_attendance"
    /\ Len(attendances) = 2
    /\ attendances[1].delete_flag
    /\ ~attendances[2].delete_flag
    /\ attendances[2].user_id = attendances[1].user_id
    /\ attendances[2].work_date = attendances[1].work_date
    /\ attendances[1].updated_at < attendances[2].created_at

----------------------------------------------------------------------------
(* The list queries: get_attendances with its four repository queries, and
   get_users, over tables holding deleted and active rows. *)

\* date.toordinal, for the dates requests name.
toordinal(d) ==
    CASE d = "2024-04-01" -> 1
      [] d = "2024-04-02" -> 2

\* work_date.between(start_date, end_date): both ends included.
between(d, start_date, end_date) ==
    toordinal(start_date) <= toordinal(d) /\ toordinal(d) <= toordinal(end_date)

\* order_by(work_date) then all(): every listing of the rows by date, rows of
\* one date in whatever order the database gives them.
OrderedByDate(rows, descending) ==
    { l \in [1..Cardinality(rows) -> rows] :
        /\ \A i, j \in DOMAIN l : i # j => l[i] # l[j]
        /\ \A i, j \in DOMAIN l :
              i < j => IF descending
                       THEN toordinal(l[i].work_date) >= toordinal(l[j].work_date)
                       ELSE toordinal(l[i].work_date) <= toordinal(l[j].work_date) }

\* all() without order_by: any order.
Unordered(rows) ==
    { l \in [1..Cardinality(rows) -> rows] :
        \A i, j \in DOMAIN l : i # j => l[i] # l[j] }

Slice(l, skip, count) ==
    LET rest == SubSeq(l, skip + 1, Len(l))
    IN  SubSeq(rest, 1, IF count < Len(rest) THEN count ELSE Len(rest))

\* "if offset: query.offset(offset)", "if limit: query.limit(limit)".
Page(l, limit, offset) ==
    Slice(l, IF offset # None /\ offset[1] # 0 THEN offset[1] ELSE 0,
             IF limit # None /\ limit[1] # 0 THEN limit[1] ELSE Len(l))

find_by_user_id(db, user_id, limit, offset) ==
    { Page(l, limit, offset) :
        l \in OrderedByDate({ r \in Rows(db) : r.user_id = user_id /\ ~r.delete_flag },
                            TRUE) }

\* Faulty variant: the delete_flag filter left out.
find_by_date_range_unfiltered(db, start_date, end_date, limit, offset) ==
    { Page(l, limit, offset) :
        l \in OrderedByDate({ r \in Rows(db) :
                                between(r.work_date, start_date, end_date) },
                            FALSE) }

find_by_date_range(db, start_date, end_date, limit, offset) ==
    { Page(l, limit, offset) :
        l \in OrderedByDate({ r \in Rows(db) :
                                /\ between(r.work_date, start_date, end_date)
                                /\ ~r.delete_flag },
                            FALSE) }

find_by_user_id_and_date_range(db, user_id, start_date, end_date, limit, offset) ==
    { Page(l, limit, offset) :
        l \in OrderedByDate({ r \in Rows(db) :
                                /\ r.user_id = user_id
                                /\ between(r.work_date, start_date, end_date)
                                /\ ~r.delete_flag },
                            FALSE) }

\* find_all: order_by names a column (work_date here) or is None, and then
\* the default is work_date descending.
find_all(db, limit, offset, order_by, asc) ==
    { Page(l, limit, offset) :
        l \in OrderedByDate({ r \in Rows(db) : ~r.delete_flag },
                            IF order_by # None THEN ~asc ELSE TRUE) }

\* SQLAlchemyUserRepository.find_all without order_by: "is not None" guards
\* offset and limit, so limit 0 gives no row.
user_find_all(db, limit, offset) ==
    { Slice(l, IF offset # None THEN offset[1] ELSE 0,
               IF limit # None THEN limit[1] ELSE Len(l)) :
        l \in Unordered({ to_entity(db.users[i]) :
                            i \in { j \in 1..Len(db.users) : ~db.users[j].delete_flag } }) }

\* get_attendances: the branch taken, the lists the branch's query can give,
\* and for each the list of response DTOs or the error building one raises.
get_attendances(db, user_id, start_date, end_date, limit, offset, order_by, asc) ==
    LET dated == start_date # None /\ end_date # None
        branch == IF Truthy(user_id) /\ dated THEN "user and range"
                  ELSE IF Truthy(user_id) THEN "user"
                  ELSE IF dated THEN "range"
                  ELSE "all"
        fetched ==
            CASE branch = "user and range" ->
                    find_by_user_id_and_date_range(db, user_id[1], start_date[1],
                                                   end_date[1], limit, offset)
              [] branch = "user" -> find_by_user_id(db, user_id[1], limit, offset)
              [] branch = "range" ->
                    find_by_date_range(db, start_date[1], end_date[1], limit, offset)
              [] branch = "all" -> find_all(db, limit, offset, order_by, asc)
        Answer(l) ==
            IF \A i \in DOMAIN l : to_response_dto(l[i]).ok
            THEN [branch |-> branch, rows |-> l, outcome |-> "returned", error |-> "",
                  value |-> [i \in DOMAIN l |-> to_response_dto(l[i]).dto]]
            ELSE [branch |-> branch, rows |-> l, outcome |-> "raised",
                  error |-> ErrResponseValidation, value |-> <<>>]
    IN  IF Truthy(user_id) /\ ~ValidUserId(user_id[1])
        THEN { [branch |-> branch, rows |-> <<>>, outcome |-> "raised",
                error |-> ErrInvalidUserId, value |-> <<>>] }
        ELSE { Answer(l) : l \in fetched }

get_users(db, limit, offset) == user_find_all(db, limit, offset)


\* Three records as create_attendance stored them, each deleted or not.
QueryRecords ==
    LET data(u, d) ==
            [user_id |-> u, work_date |-> d,
             clock_in |-> T0900, clock_out |-> T1800,
             rest_in |-> T1200, rest_out |-> T1300,
             work_place |-> None, transportation_expenses |-> None,
             remarks |-> None, created_by |-> "alice", updated_by |-> "alice"]
    IN  << Attendance(1, data("u1", "2024-04-01"), 1),
           Attendance(2, data("u1", "2024-04-02"), 2),
           Attendance(3, data("u2", "2024-04-01"), 3) >>

AttendanceTables ==
    { [i \in DOMAIN QueryRecords |->
         IF i \in deleted THEN delete(QueryRecords, i, 4)[i] ELSE QueryRecords[i]] :
        deleted \in SUBSET DOMAIN QueryRecords }

\* The two created users, each deleted or not.
UserTables ==
    { [i \in DOMAIN TwoUsers.users |->
         IF i \in deleted THEN user_delete(TwoUsers, i, 3).users[i]
         ELSE TwoUsers.users[i]] :
        deleted \in SUBSET DOMAIN TwoUsers.users }

QueryUserIds == {None, Some("u1"), Some(InvalidUserId)}
QueryDates == {None} \cup { Some(d) : d \in WorkDates }
QueryLimits == {None, Some(0), Some(1), Some(2)}
QueryOffsets == {None, Some(1)}

GetAttendances ==
    \E user_id \in QueryUserIds, start_date \in QueryDates, end_date \in QueryDates,
       limit \in QueryLimits, offset \in QueryOffsets :
        \E r \in get_attendances(attendances, user_id, start_date, end_date,
                                 limit, offset, None, TRUE) :
            /\ lastOp' = [op |-> "get_attendances", user_id |-> user_id,
                          start_date |-> start_date, end_date |-> end_date,
                          limit |-> limit, offset |-> offset,
                          branch |-> r.branch, rows |-> r.rows,
                          outcome |-> r.outcome, error |-> r.error,
                          value |-> r.value]
            /\ UNCHANGED <<attendances, now, probe, users, user_roles, roles, requests>>

GetUsers ==
    \E limit \in QueryLimits, offset \in QueryOffsets :
        \E l \in get_users(UserDb, limit, offset) :
            /\ lastOp' = [op |-> "get_users", limit |-> limit, offset |-> offset,
                          outcome |-> "returned", error |-> "", value |-> l]
            /\ UNCHANGED <<attendances, now, probe, users, user_roles, roles, requests>>

QueryInit ==
    /\ attendances \in AttendanceTables
    /\ now = 5
    /\ lastOp = NoOp
    /\ probe = NoProbe
    /\ users \in UserTables
    /\ user_roles = TwoUsers.user_roles
    /\ roles = TwoUsers.roles
    /\ requests = <<>>

QueryNext ==
    \/ GetAttendances
    \/ GetUsers

QuerySpec == QueryInit /\ [][QueryNext]_vars

(* C29 -- no read operation returns a logically deleted row: in every
   reachable state, each record returned by get_attendances (in all four
   dispatch branches: user+date range, user only, date range only, all) and
   each user returned by get_users has delete_flag = false, matches the
   supplied user_id and inclusive [start_date, end_date] filter when both
   dates are given, and the result has at most limit entries when a positive
   limit is given. *)
DateOrdinal(d) == IF d = "2024-04-01" THEN 1 ELSE 2

WithinLimit(l, limit) == (limit # None /\ limit[1] > 0) => Len(l) <= limit[1]

C29_ReadsSkipDeletedRows ==
    /\ lastOp.op = "get_attendances"
       => /\ lastOp.branch
               = ( IF lastOp.user_id # None
                   THEN (IF lastOp.start_date # None /\ lastOp.end_date # None
                         THEN "user and range" ELSE "user")
                   ELSE (IF lastOp.start_date # None /\ lastOp.end_date # None
                         THEN "range" ELSE "all") )
          /\ \A l \in {lastOp.rows, lastOp.value} :
                /\ WithinLimit(l, lastOp.limit)
                /\ \A i \in DOMAIN l :
                      /\ ~l[i].delete_flag
                      /\ \E j \in DOMAIN attendances :
                            /\ attendances[j].id = l[i].id
                            /\ ~attendances[j].delete_flag
                      /\ lastOp.user_id # None => l[i].user_id = lastOp.user_id[1]
                      /\ (lastOp.start_date # None /\ lastOp.end_date # None)
                         => /\ DateOrdinal(lastOp.start_date[1]) <= DateOrdinal(l[i].work_date)
                            /\ DateOrdinal(l[i].work_date) <= DateOrdinal(lastOp.end_date[1])
    /\ lastOp.op = "get_users"
       => /\ WithinLimit(lastOp.value, lastOp.limit)
          /\ \A i \in DOMAIN lastOp.value :
                /\ ~lastOp.value[i].delete_flag
                /\ ~users[lastOp.value[i].id].delete_flag

\* A date-range query over a table with a deleted and an active record in the
\* range fetched the active one alone.
C29_Witness ==
    /\ lastOp.op = "get_attendances"
    /\ lastOp.branch = "range"
    /\ lastOp.start_date = Some("2024-04-01")
    /\ lastOp.end_date = Some("2024-04-01")
    /\ lastOp.limit = None
    /\ Len(lastOp.rows) = 1
    /\ attendances[1].delete_flag
    /\ ~attendances[3].delete_flag
    /\ lastOp.rows[1].id = 3

(* C30 -- for every record whose time fields passed the ordering validation,
   the derived values are never negative: secondsOf(rest_out) -
   secondsOf(rest_in) >= 0 and (secondsOf(clock_out) - secondsOf(clock_in))
   - (secondsOf(rest_out) - secondsOf(rest_in)) >= 0, and the working seconds
   never exceed secondsOf(clock_out) - secondsOf(clock_in).  The hours
   computed from times that have just passed the validation are bounded the
   same way: neither is negative, and the working hours are no more than the
   rounded span from clock-in to clock-out. *)
PassedValidation == lastOp.op = "validate_clock_times" /\ lastOp.error = ""

RestSeconds == SecondsOf(probe.rest_out) - SecondsOf(probe.rest_in)

GrossSeconds == SecondsOf(probe.clock_out) - SecondsOf(probe.clock_in)

C30_DerivedValuesNotNegative ==
    /\ [](PassedValidation =>
             /\ RestSeconds >= 0
             /\ GrossSeconds - RestSeconds >= 0
             /\ GrossSeconds - RestSeconds <= GrossSeconds)
    /\ [][(PassedValidation /\ lastOp'.op = "calculate_hours") =>
             /\ lastOp'.rest_hours >= 0
             /\ lastOp'.working_hours >= 0
             /\ 36 * lastOp'.working_hours <= GrossSeconds + 18]_vars

\* The hours of the shortest validly ordered day among the probes: 12:00 to
\* 13:00 with a rest from 12:00:30 to 12:45.
C30_Witness ==
    /\ lastOp.op = "calculate_hours"
    /\ validate_clock_times(probe.clock_in, probe.clock_out,
                            probe.rest_in, probe.rest_out) = ""
    /\ probe = Quad(T1200, T1300, T120030, T1245)
    /\ lastOp.rest_hours = 74
    /\ lastOp.working_hours = 26

====
